---- MODULE Spec2Model ----
(***************************************************************************)
(* Verification model of rautee: the entity graph (security_data.py), the  *)
(* rules (rules/rule.py and its variants) and their matching algorithm.    *)
(*                                                                         *)
(* Python objects live on a heap.  A SecurityData object is named by a     *)
(* handle <<g>>; the AffectedEntity with entity_id i that belongs to the   *)
(* SecurityData object <<g>> is the object <<g, i>>.  A RelatedEntity      *)
(* holds a weakref.WeakSet of AffectedEntity objects: under CPython's      *)
(* reference counting an AffectedEntity disappears from every WeakSet as   *)
(* soon as the last dict holding it drops it.                              *)
(*                                                                         *)
(* Strings are sequences of one-character strings; scores are integers.    *)
(***************************************************************************)
EXTENDS Integers, Sequences, FiniteSets, TLC

VARIABLES objs, sd, match, remainder, last, rule, pc,
          config, rules, security_data_list, rule_iter, calls

\* the variables of main() (rautee.py), which the other specifications leave alone
mainvars == <<config, rules, security_data_list, rule_iter, calls>>

vars == <<objs, sd, match, remainder, last, rule, pc,
          config, rules, security_data_list, rule_iter, calls>>

\* ------------------------------------------------------------------ bounds
NumAffected == 2
NumHosts == 2

\* ------------------------------------------------------- program constants
MinScore == 0
MaxScore == 10

\* ----------------------------------------------------------------- helpers
None == <<>>

Range(f) == {f[x] : x \in DOMAIN f}

Restrict(f, S) == [x \in S |-> f[x]]

RECURSIVE SetToSeq(_)
\* the ascending sequence of a finite set of integers
SetToSeq(S) ==
    IF S = {} THEN <<>>
    ELSE LET m == CHOOSE x \in S : \A y \in S : x <= y
         IN <<m>> \o SetToSeq(S \ {m})

RECURSIVE SelectSeqBy(_, _)
\* the subsequence of s at the (ascending) indices in I
SelectSeqBy(s, I) ==
    IF I = {} THEN <<>>
    ELSE LET m == CHOOSE x \in I : \A y \in I : x <= y
         IN <<s[m]>> \o SelectSeqBy(s, I \ {m})

Truthy(opt) == opt # None /\ opt[1] # 0

\* ----------------------------------------------------------------- strings
Lower(c) ==
    CASE c = "A" -> "a"
      [] c = "B" -> "b"
      [] c = "H" -> "h"
      [] c = "P" -> "p"
      [] c = "T" -> "t"
      [] OTHER -> c

LowerStr(s) == [k \in DOMAIN s |-> Lower(s[k])]

equals(candidate, pattern) == candidate = pattern

equals_ignore_case(candidate, pattern) ==
    equals(LowerStr(candidate), LowerStr(pattern))

startswith(candidate, pattern) ==
    /\ Len(pattern) <= Len(candidate)
    /\ SubSeq(candidate, 1, Len(pattern)) = pattern

startswith_ignore_case(candidate, pattern) ==
    startswith(LowerStr(candidate), LowerStr(pattern))

\* mutant: an empty pattern is found in no candidate
contains_ProperPattern(candidate, pattern) ==
    /\ pattern # <<>>
    /\ \E k \in 0..(Len(candidate) - Len(pattern)) :
          SubSeq(candidate, k + 1, k + Len(pattern)) = pattern

contains(candidate, pattern) ==
    \E k \in 0..(Len(candidate) - Len(pattern)) :
        SubSeq(candidate, k + 1, k + Len(pattern)) = pattern

contains_ignore_case(candidate, pattern) ==
    contains(LowerStr(candidate), LowerStr(pattern))

\* ------------------------------------------------ provider lookup tables
\* EntityDetails of the affected entity with id i: display name
EntityName(i) ==
    CASE i = 0     -> <<"p", "a", "1">>
      [] i % 3 = 1 -> <<"p", "a">>
      [] i % 3 = 2 -> <<"P", "b">>
      [] OTHER     -> <<"p", "a">>

\* EntityDetails of the affected entity with id i: the stringRepresentation
\* of each of its tags, in order
EntityTags(i) ==
    CASE i % 3 = 1 -> << <<"t", "a">> >>
      [] i % 3 = 2 -> << <<"t", "a">>, <<"T", "b">> >>
      [] OTHER     -> << >>

\* EntityDetails of the related host with id h: display name
HostName(h) ==
    CASE h % 3 = 1 -> <<"h", "a">>
      [] h % 3 = 2 -> <<"H", "b">>
      [] OTHER     -> <<"h", "a">>

AffectedIds == 1..NumAffected
HostIds == 1..NumHosts

all_affected_entities == [i \in {0} \cup AffectedIds |-> [entity_id |-> i, entity_name |-> EntityName(i), tags |-> EntityTags(i)]]
all_related_hosts == [h \in HostIds |-> [entity_id |-> h, entity_name |-> HostName(h)]]

\* ------------------------------------------------------------- the heap
\* the AffectedEntity objects some SecurityData object holds in its dict
LiveEntities(H) == UNION {Range(H[h].affected_entities) : h \in DOMAIN H}

\* mutant: the relation is a plain set, which keeps what the dict dropped
WeakSetSync_StrongSet(H) == H

\* weakref.WeakSet: a dead object is in no WeakSet
WeakSetSync(H) ==
    [h \in DOMAIN H |->
        [H[h] EXCEPT !.related_hosts =
            [k \in DOMAIN @ |->
                [@[k] EXCEPT !.affected_entities = @ \cap LiveEntities(H)]]]]

\* for x in entity_ids_to_delete: del self.affected_entities[x]
DeleteEntities(H, h, ids) ==
    WeakSetSync([H EXCEPT ![h].affected_entities =
                    Restrict(@, (DOMAIN @) \ ids)])

\* ------------------------------------------------------- AffectedEntity
entity_id(a) == a[2]
entity_name(a) == EntityName(a[2])
tags(a) == EntityTags(a[2])

\* ------------------------------------------------------- SecurityData
\* SecurityData.create, for the record whose affectedEntities list is
\* raw.affectedEntities (ascending) and whose relatedEntities.hosts list is
\* raw.hosts; the object built is <<g>>
create(raw, g) ==
    LET ids == raw.affectedEntities
    IN [risk_score |-> raw.riskScore,
        affected_entities |-> [i \in ids |-> <<g, all_affected_entities[i].entity_id>>],
        related_hosts |->
            [k \in DOMAIN raw.hosts |->
                [entity_id |-> all_related_hosts[raw.hosts[k].id].entity_id,
                 entity_name |-> all_related_hosts[raw.hosts[k].id].entity_name,
                 affected_entities |->
                    {<<g, i>> : i \in ids \cap raw.hosts[k].affectedEntities}]]]

\* the ids of the dict, in insertion order
KeyOrder(G) == SetToSeq(DOMAIN G.affected_entities)

affected_entity_names(G) ==
    [k \in DOMAIN KeyOrder(G) |-> entity_name(G.affected_entities[KeyOrder(G)[k]])]

affected_entity_tags(G) ==
    UNION {Range(tags(a)) : a \in Range(G.affected_entities)}

related_hostnames(G) ==
    LET hs == G.related_hosts
        keep == {k \in DOMAIN hs : hs[k].affected_entities # {}}
    IN [k \in DOMAIN SelectSeqBy(hs, keep) |-> SelectSeqBy(hs, keep)[k].entity_name]

\* mutant: remove_matches is ignored, the matches are always the ones deleted
remove_affected_entities_by_name_IgnoreFlag(H, h, entity_names, remove_matches) ==
    LET ae == H[h].affected_entities
        entity_ids == {entity_id(x) : x \in {y \in Range(ae) : entity_name(y) \in entity_names}}
    IN DeleteEntities(H, h, entity_ids)

remove_affected_entities_by_name(H, h, entity_names, remove_matches) ==
    LET ae == H[h].affected_entities
        entity_ids == {entity_id(x) : x \in {y \in Range(ae) : entity_name(y) \in entity_names}}
        entity_ids_to_delete ==
            IF remove_matches THEN entity_ids ELSE (DOMAIN ae) \ entity_ids
    IN DeleteEntities(H, h, entity_ids_to_delete)

\* mutant: remove_matches is ignored, the matches are always the ones deleted
remove_affected_entities_by_tags_IgnoreFlag(H, h, entity_tags, remove_matches) ==
    LET ae == H[h].affected_entities
        entity_ids == {entity_id(x) : x \in {y \in Range(ae) :
                            \E t \in entity_tags : t \in Range(tags(y))}}
    IN DeleteEntities(H, h, entity_ids)

remove_affected_entities_by_tags(H, h, entity_tags, remove_matches) ==
    LET ae == H[h].affected_entities
        entity_ids == {entity_id(x) : x \in {y \in Range(ae) :
                            \E t \in entity_tags : t \in Range(tags(y))}}
        entity_ids_to_delete ==
            IF remove_matches THEN entity_ids ELSE (DOMAIN ae) \ entity_ids
    IN DeleteEntities(H, h, entity_ids_to_delete)

\* mutant: remove_matches is ignored, the matches are always the ones deleted
remove_affected_entities_by_related_entity_name_IgnoreFlag(H, h, entity_names, remove_matches) ==
    LET hs == H[h].related_hosts
        affected_entity_ids ==
            {entity_id(a) : a \in UNION {hs[k].affected_entities :
                                k \in {j \in DOMAIN hs : hs[j].entity_name \in entity_names}}}
    IN DeleteEntities(H, h, affected_entity_ids)

remove_affected_entities_by_related_entity_name(H, h, entity_names, remove_matches) ==
    LET hs == H[h].related_hosts
        affected_entity_ids ==
            {entity_id(a) : a \in UNION {hs[k].affected_entities :
                                k \in {j \in DOMAIN hs : hs[j].entity_name \in entity_names}}}
        affected_entity_ids_to_remove ==
            IF remove_matches THEN affected_entity_ids
            ELSE {x \in DOMAIN H[h].affected_entities : x \notin affected_entity_ids}
    IN DeleteEntities(H, h, affected_entity_ids_to_remove)

\* mutant: related_hosts is not filtered after the removal
remove_affected_entities_by_related_hostnames_NoDrop(H, h, hostnames, remove_matches) ==
    remove_affected_entities_by_related_entity_name(H, h, hostnames, remove_matches)

remove_affected_entities_by_related_hostnames(H, h, hostnames, remove_matches) ==
    LET H1 == remove_affected_entities_by_related_entity_name(H, h, hostnames, remove_matches)
        hs == H1[h].related_hosts
        keep == {k \in DOMAIN hs : hs[k].affected_entities # {}}
    IN [H1 EXCEPT ![h].related_hosts = SelectSeqBy(hs, keep)]

\* mutant: the WeakSet of the copy still refers to the original objects
RelatedEntity_deepcopy_Alias(G, g, re) == re

\* RelatedEntity.__deepcopy__ inside copy.deepcopy(security_data): the copy
\* <<g>> of the object h.  The dict is copied first, so memo maps each
\* AffectedEntity of the dict to its copy; an object of a WeakSet that the
\* dict does not hold would get a copy nothing else refers to.
RelatedEntity_deepcopy(G, g, re) ==
    [re EXCEPT !.affected_entities =
        {<<g, entity_id(x)>> : x \in @ \cap Range(G.affected_entities)}]

deepcopy(H, h, g) ==
    LET G == H[h]
        copy == [G EXCEPT
                    !.affected_entities = [i \in DOMAIN @ |-> <<g, entity_id(@[i])>>],
                    !.related_hosts = [k \in DOMAIN @ |-> RelatedEntity_deepcopy(G, g, @[k])]]
    IN [x \in (DOMAIN H) \cup {<<g>>} |-> IF x = <<g>> THEN copy ELSE H[x]]

\* ------------------------------------------------------------ raw records
HostEntries(S) == [id : S, affectedEntities : SUBSET AffectedIds]

RECURSIVE HostLists(_)
\* the hosts lists with ascending, distinct host ids from S
HostLists(S) ==
    IF S = {} THEN {<<>>}
    ELSE LET m == CHOOSE x \in S : \A y \in S : x <= y
             rest == HostLists(S \ {m})
         IN rest \cup {<<e>> \o r : e \in HostEntries({m}), r \in rest}

RiskScores == {0, 5}

RawRecords ==
    [affectedEntities : SUBSET AffectedIds,
     hosts : HostLists(HostIds),
     riskScore : RiskScores]

\* ------------------------------------------------- graph operations
NameSets == SUBSET {EntityName(i) : i \in AffectedIds}
TagSets == SUBSET UNION {Range(EntityTags(i)) : i \in AffectedIds}
HostNameSets == SUBSET {HostName(h) : h \in HostIds}

\* main() is not running
MainIdle ==
    /\ config = <<>>
    /\ rules = <<>>
    /\ security_data_list = <<>>
    /\ rule_iter = <<>>
    /\ calls = <<>>

NoOp == [op |-> "none", obj |-> None, arg |-> {}, remove_matches |-> FALSE,
         complement |-> FALSE, before |-> None, origin |-> None]

InitGraph ==
    /\ \E raw \in RawRecords :
          /\ raw.riskScore = 5
          /\ objs = [x \in {<<0>>} |-> create(raw, 0)]
    /\ sd = <<0>>
    /\ match = None
    /\ remainder = None
    /\ last = NoOp
    /\ rule = None
    /\ pc = "graph"
    /\ MainIdle

\* What the last removal was: the object it acted on, its arguments, the
\* value of that object before it (before), and whether it is the second half
\* of a complement pair: the same removal on the same object with
\* remove_matches = True came right before it (origin is then the value of the
\* object before that first half).
Removal(kind, h, S, rm) ==
    LET second == /\ ~rm
                  /\ last.op = kind
                  /\ last.obj = h
                  /\ last.arg = S
                  /\ last.remove_matches
    IN [op |-> kind, obj |-> h, arg |-> S, remove_matches |-> rm,
        complement |-> second,
        before |-> objs[h],
        origin |-> IF second THEN last.before ELSE objs[h]]

RemoveByName(S, rm) ==
    /\ pc = "graph"
    /\ objs' = remove_affected_entities_by_name(objs, sd, S, rm)
    /\ last' = Removal("by_name", sd, S, rm)
    /\ UNCHANGED <<sd, match, remainder, rule, pc>>
    /\ UNCHANGED mainvars

RemoveByTags(S, rm) ==
    /\ pc = "graph"
    /\ objs' = remove_affected_entities_by_tags(objs, sd, S, rm)
    /\ last' = Removal("by_tags", sd, S, rm)
    /\ UNCHANGED <<sd, match, remainder, rule, pc>>
    /\ UNCHANGED mainvars

RemoveByRelatedHostnames(S, rm) ==
    /\ pc = "graph"
    /\ objs' = remove_affected_entities_by_related_hostnames(objs, sd, S, rm)
    /\ last' = Removal("by_hostnames", sd, S, rm)
    /\ UNCHANGED <<sd, match, remainder, rule, pc>>
    /\ UNCHANGED mainvars

NextGraph ==
    \/ \E S \in NameSets, rm \in BOOLEAN : RemoveByName(S, rm)
    \/ \E S \in TagSets, rm \in BOOLEAN : RemoveByTags(S, rm)
    \/ \E S \in HostNameSets, rm \in BOOLEAN : RemoveByRelatedHostnames(S, rm)

\* one SecurityData object and the removals made on it
SpecGraph == InitGraph /\ [][NextGraph]_vars

\* ------------------------------------------------- the graph and its copy
InitClone ==
    /\ \E raw \in RawRecords :
          /\ raw.riskScore = 5
          /\ objs = [x \in {<<0>>} |-> create(raw, 0)]
    /\ sd = <<0>>
    /\ match = None
    /\ remainder = None
    /\ last = [op |-> "none", obj |-> None]
    /\ rule = None
    /\ pc = "clone"
    /\ MainIdle

CloneRemoveByName(h, S, rm) ==
    /\ pc = "clone"
    /\ objs' = remove_affected_entities_by_name(objs, h, S, rm)
    /\ last' = [op |-> "remove", obj |-> h]
    /\ UNCHANGED <<sd, match, remainder, rule, pc>>
    /\ UNCHANGED mainvars

CloneRemoveByTags(h, S, rm) ==
    /\ pc = "clone"
    /\ objs' = remove_affected_entities_by_tags(objs, h, S, rm)
    /\ last' = [op |-> "remove", obj |-> h]
    /\ UNCHANGED <<sd, match, remainder, rule, pc>>
    /\ UNCHANGED mainvars

CloneRemoveByRelatedHostnames(h, S, rm) ==
    /\ pc = "clone"
    /\ objs' = remove_affected_entities_by_related_hostnames(objs, h, S, rm)
    /\ last' = [op |-> "remove", obj |-> h]
    /\ UNCHANGED <<sd, match, remainder, rule, pc>>
    /\ UNCHANGED mainvars

\* the objects that program variables refer to
Referenced(H, hs) == WeakSetSync(Restrict(H, (DOMAIN H) \cap hs))

\* remainder = copy.deepcopy(sd); the copy remainder referred to is dropped
Clone ==
    /\ pc = "clone"
    /\ objs' = deepcopy(Referenced(objs, {sd}), sd, 1)
    /\ remainder' = <<1>>
    /\ last' = [op |-> "clone", obj |-> <<1>>]
    /\ UNCHANGED <<sd, match, rule, pc>>
    /\ UNCHANGED mainvars

NextClone ==
    \/ \E h \in DOMAIN objs, S \in NameSets, rm \in BOOLEAN : CloneRemoveByName(h, S, rm)
    \/ \E h \in DOMAIN objs, S \in TagSets, rm \in BOOLEAN : CloneRemoveByTags(h, S, rm)
    \/ \E h \in DOMAIN objs, S \in HostNameSets, rm \in BOOLEAN :
          CloneRemoveByRelatedHostnames(h, S, rm)
    \/ Clone

\* a SecurityData object, its deep copy, and the removals made on either
SpecClone == InitClone /\ [][NextClone]_vars

TypeOK ==
    pc \in {"graph", "clone", "rule", "built", "match", "matched",
            "main", "fetch", "open", "record", "chain", "done", "aborted", "hex", "hexed", "create", "created", "jira"}
\* ==================================================================== rules
\* An optional value is <<>> (None) or <<v>>.
Some(v) == <<v>>

\* Rule.create: the supported rule types and their classes
supported_rule_types ==
    [hostname |-> "HostnameRule",
     affectedEntity |-> "AffectedEntityRule",
     affectedEntityTag |-> "AffectedEntityTagRule"]

RuleTypes == DOMAIN supported_rule_types
Variants == Range(supported_rule_types)

OperatorNames ==
    {"startswith", "startswithIgnoreCase", "equals", "equalsIgnoreCase",
     "contains", "containsIgnoreCase"}

\* SUPPORTED_OPERATORS of each variant: the operator names
SUPPORTED_OPERATORS(variant) ==
    CASE variant = "AffectedEntityRule"    -> OperatorNames
      [] variant = "AffectedEntityTagRule" -> OperatorNames
      [] variant = "HostnameRule"          -> OperatorNames

\* self.eval_function(x, self.value)
eval_function(operator, x, value) ==
    CASE operator = "startswith"           -> startswith(x, value)
      [] operator = "startswithIgnoreCase" -> startswith_ignore_case(x, value)
      [] operator = "equals"               -> equals(x, value)
      [] operator = "equalsIgnoreCase"     -> equals_ignore_case(x, value)
      [] operator = "contains"             -> contains(x, value)
      [] operator = "containsIgnoreCase"   -> contains_ignore_case(x, value)

Raise(msg) == [raised |-> msg, rule |-> None]

\* mutant: an empty value is rejected like an absent one
Rule_init_RejectEmptyValue(variant, value, operator, minimum_score, stop_after_match, params) ==
    IF value = None \/ value = Some(<<>>) THEN Raise("Rule: value required")
    ELSE IF operator = None \/ operator = Some("") THEN Raise("Rule: operator required")
    ELSE IF Truthy(minimum_score) /\ (minimum_score[1] < MinScore \/ minimum_score[1] > MaxScore)
        THEN Raise("Rule: 0<=minimum_score<=10 required")
    ELSE IF params = <<>> THEN Raise("Rule: params required")
    ELSE IF operator[1] \notin SUPPORTED_OPERATORS(variant)
        THEN Raise("Rule: operator not supported")
    ELSE [raised |-> "",
          rule |-> Some([variant |-> variant, value |-> value[1], operator |-> operator[1],
                         minimum_score |-> minimum_score,
                         stop_after_match |-> stop_after_match, params |-> params])]

\* Rule.__init__ as run by the constructor of a variant: the exception raised
\* ("" for none) and the object built (None when it raised)
Rule_init(variant, value, operator, minimum_score, stop_after_match, params) ==
    IF value = None THEN Raise("Rule: value required")
    ELSE IF operator = None \/ operator = Some("") THEN Raise("Rule: operator required")
    ELSE IF Truthy(minimum_score) /\ (minimum_score[1] < MinScore \/ minimum_score[1] > MaxScore)
        THEN Raise("Rule: 0<=minimum_score<=10 required")
    ELSE IF params = <<>> THEN Raise("Rule: params required")
    ELSE IF operator[1] \notin SUPPORTED_OPERATORS(variant)
        THEN Raise("Rule: operator not supported")
    ELSE [raised |-> "",
          rule |-> Some([variant |-> variant, value |-> value[1], operator |-> operator[1],
                         minimum_score |-> minimum_score,
                         stop_after_match |-> stop_after_match, params |-> params])]

\* Rule.create: d is the rule dict, a function from the keys it has
Rule_create(d) ==
    IF "type" \notin DOMAIN d THEN Raise("Rule: need type to create rule")
    ELSE IF d.type \notin RuleTypes THEN Raise("Rule: unsupported type")
    ELSE IF \E x \in {"value", "operator", "params"} : x \notin DOMAIN d
        THEN Raise("Rule: need value, operator, params")
    ELSE LET minimum_score == IF "minimumScore" \in DOMAIN d THEN d.minimumScore ELSE None
             stop_after_match == IF "stopAfterMatch" \in DOMAIN d THEN d.stopAfterMatch ELSE FALSE
         IN Rule_init(supported_rule_types[d.type], d.value, d.operator,
                      minimum_score, stop_after_match, d.params)

\* target_attribute_name of each variant, read with getattr: the view
target_attribute_values(variant, G) ==
    CASE variant = "AffectedEntityRule"    -> Range(affected_entity_names(G))
      [] variant = "AffectedEntityTagRule" -> affected_entity_tags(G)
      [] variant = "HostnameRule"          -> Range(related_hostnames(G))

\* mutant: the remainder is copied and left whole
AffectedEntityRule_get_match_and_remainder_KeepAll(H, h, g, matching_entity_names) ==
    remove_affected_entities_by_name(deepcopy(H, h, g), h, matching_entity_names, FALSE)

\* each _get_match_and_remainder: the heap after the split of h into h (the
\* match) and its copy <<g>> (the remainder)
AffectedEntityRule_get_match_and_remainder(H, h, g, matching_entity_names) ==
    LET H1 == deepcopy(H, h, g)
        H2 == remove_affected_entities_by_name(H1, h, matching_entity_names, FALSE)
    IN remove_affected_entities_by_name(H2, <<g>>, matching_entity_names, TRUE)

\* mutant: the remainder is copied and left whole
AffectedEntityTagRule_get_match_and_remainder_KeepAll(H, h, g, matching_tags) ==
    remove_affected_entities_by_tags(deepcopy(H, h, g), h, matching_tags, FALSE)

AffectedEntityTagRule_get_match_and_remainder(H, h, g, matching_tags) ==
    LET H1 == deepcopy(H, h, g)
        H2 == remove_affected_entities_by_tags(H1, h, matching_tags, FALSE)
    IN remove_affected_entities_by_tags(H2, <<g>>, matching_tags, TRUE)

\* mutant: the remainder is copied and left whole
HostnameRule_get_match_and_remainder_KeepAll(H, h, g, matching_hostnames) ==
    remove_affected_entities_by_related_hostnames(deepcopy(H, h, g), h, matching_hostnames, FALSE)

HostnameRule_get_match_and_remainder(H, h, g, matching_hostnames) ==
    LET H1 == deepcopy(H, h, g)
        H2 == remove_affected_entities_by_related_hostnames(H1, h, matching_hostnames, FALSE)
    IN remove_affected_entities_by_related_hostnames(H2, <<g>>, matching_hostnames, TRUE)

get_match_and_remainder(variant, H, h, g, matches) ==
    CASE variant = "AffectedEntityRule" ->
            AffectedEntityRule_get_match_and_remainder(H, h, g, matches)
      [] variant = "AffectedEntityTagRule" ->
            AffectedEntityTagRule_get_match_and_remainder(H, h, g, matches)
      [] variant = "HostnameRule" ->
            HostnameRule_get_match_and_remainder(H, h, g, matches)

Matches(r, G) ==
    {x \in target_attribute_values(r.variant, G) : eval_function(r.operator, x, r.value)}

\* mutant: the threshold is exclusive
Rule_match_ExclusiveThreshold(r, H, h, g) ==
    IF h = None THEN [objs |-> H, match |-> None, remainder |-> None]
    ELSE IF Truthy(r.minimum_score) /\ H[h].risk_score <= r.minimum_score[1]
        THEN [objs |-> H, match |-> None, remainder |-> h]
    ELSE IF Matches(r, H[h]) = {}
        THEN [objs |-> H, match |-> None, remainder |-> h]
    ELSE IF r.stop_after_match
        THEN [objs |-> H, match |-> h, remainder |-> None]
    ELSE [objs |-> get_match_and_remainder(r.variant, H, h, g, Matches(r, H[h])),
          match |-> h, remainder |-> <<g>>]

\* mutant: the graph is split even when nothing matches
Rule_match_AlwaysSplit(r, H, h, g) ==
    IF h = None THEN [objs |-> H, match |-> None, remainder |-> None]
    ELSE IF Truthy(r.minimum_score) /\ H[h].risk_score < r.minimum_score[1]
        THEN [objs |-> H, match |-> None, remainder |-> h]
    ELSE IF r.stop_after_match /\ Matches(r, H[h]) # {}
        THEN [objs |-> H, match |-> h, remainder |-> None]
    ELSE [objs |-> get_match_and_remainder(r.variant, H, h, g, Matches(r, H[h])),
          match |-> h, remainder |-> <<g>>]

\* mutant: stop_after_match is ignored
Rule_match_NoStop(r, H, h, g) ==
    IF h = None THEN [objs |-> H, match |-> None, remainder |-> None]
    ELSE IF Truthy(r.minimum_score) /\ H[h].risk_score < r.minimum_score[1]
        THEN [objs |-> H, match |-> None, remainder |-> h]
    ELSE IF Matches(r, H[h]) = {}
        THEN [objs |-> H, match |-> None, remainder |-> h]
    ELSE [objs |-> get_match_and_remainder(r.variant, H, h, g, Matches(r, H[h])),
          match |-> h, remainder |-> <<g>>]

\* Rule.match(security_data) for the rule r and the object h (None for an
\* absent graph); a copy, when one is made, is the object <<g>>
Rule_match(r, H, h, g) ==
    IF h = None THEN [objs |-> H, match |-> None, remainder |-> None]
    ELSE IF Truthy(r.minimum_score) /\ H[h].risk_score < r.minimum_score[1]
        THEN [objs |-> H, match |-> None, remainder |-> h]
    ELSE IF Matches(r, H[h]) = {}
        THEN [objs |-> H, match |-> None, remainder |-> h]
    ELSE IF r.stop_after_match
        THEN [objs |-> H, match |-> h, remainder |-> None]
    ELSE [objs |-> get_match_and_remainder(r.variant, H, h, g, Matches(r, H[h])),
          match |-> h, remainder |-> <<g>>]

\* ------------------------------------------------------------ Rule.hex_id
\* str.encode('utf-8') of a class name and of an operator name: its characters
ClassNameBytes(variant) ==
    CASE variant = "HostnameRule" -> <<"H", "o", "s", "t", "n", "a", "m", "e", "R", "u", "l", "e">>
      [] variant = "AffectedEntityRule" -> <<"A", "f", "f", "e", "c", "t", "e", "d", "E", "n", "t", "i", "t", "y", "R", "u", "l", "e">>
      [] variant = "AffectedEntityTagRule" -> <<"A", "f", "f", "e", "c", "t", "e", "d", "E", "n", "t", "i", "t", "y", "T", "a", "g", "R", "u", "l", "e">>

OperatorBytes(operator) ==
    CASE operator = "startswith" -> <<"s", "t", "a", "r", "t", "s", "w", "i", "t", "h">>
      [] operator = "startswithIgnoreCase" -> <<"s", "t", "a", "r", "t", "s", "w", "i", "t", "h", "I", "g", "n", "o", "r", "e", "C", "a", "s", "e">>
      [] operator = "equals" -> <<"e", "q", "u", "a", "l", "s">>
      [] operator = "equalsIgnoreCase" -> <<"e", "q", "u", "a", "l", "s", "I", "g", "n", "o", "r", "e", "C", "a", "s", "e">>
      [] operator = "contains" -> <<"c", "o", "n", "t", "a", "i", "n", "s">>
      [] operator = "containsIgnoreCase" -> <<"c", "o", "n", "t", "a", "i", "n", "s", "I", "g", "n", "o", "r", "e", "C", "a", "s", "e">>

Digits == <<"0", "1", "2", "3", "4", "5", "6", "7", "8", "9">>

RECURSIVE StrNat(_)
\* str(n) for an int n >= 0
StrNat(n) == IF n < 10 THEN <<Digits[n + 1]>> ELSE StrNat(n \div 10) \o <<Digits[(n % 10) + 1]>>

\* a number that is a float: SomeFloat(n) is n.0 where Some(n) is the int n
SomeFloat(n) == <<n, "float">>

\* str(self.minimum_score): 'None', the digits of an int, the digits and '.0'
\* of a float without a fractional part
StrScore(minimum_score) ==
    LET digits == IF minimum_score[1] < 0 THEN <<"-">> \o StrNat(0 - minimum_score[1])
                  ELSE StrNat(minimum_score[1])
    IN IF minimum_score = None THEN <<"N", "o", "n", "e">>
       ELSE IF Len(minimum_score) = 2 THEN digits \o <<".", "0">>
       ELSE digits

\* str(self.stop_after_match)
StrBool(b) == IF b THEN <<"T", "r", "u", "e">> ELSE <<"F", "a", "l", "s", "e">>

\* the bytes the five h.update calls feed to the digest, in their order
hex_id_input(r) ==
    ClassNameBytes(r.variant) \o OperatorBytes(r.operator) \o r.value
        \o StrScore(r.minimum_score) \o StrBool(r.stop_after_match)

Alphabet ==
    <<"-", ".", "0", "1", "2", "3", "4", "5", "6", "7", "8", "9", "A", "B", "C", "E", "F", "H", "I", "N", "P", "R", "T", "a", "b", "c", "d", "e", "f", "g", "h", "i", "l", "m", "n", "o", "p", "q", "r", "s", "t", "u", "w", "y", "z">>

Ord(c) == CHOOSE k \in DOMAIN Alphabet : Alphabet[k] = c

HexDigits == Digits \o <<"a", "b", "c", "d", "e", "f">>

RECURSIVE md5(_)
\* hashlib.md5: a digest, which depends on the bytes fed to it and on nothing
\* else (a 24-bit polynomial digest stands for it)
md5(bytes) ==
    IF bytes = <<>> THEN 7
    ELSE (md5(SubSeq(bytes, 1, Len(bytes) - 1)) * 31 + Ord(bytes[Len(bytes)])) % 16777216

\* h.hexdigest()[:6]
hexdigest6(n) == [k \in 1..6 |-> HexDigits[((n \div (16 ^ (6 - k))) % 16) + 1]]

hex_id(r) == hexdigest6(md5(hex_id_input(r)))

\* ------------------------------------------------------ rule construction
Values == {<<>>, <<"a">>, <<"B">>, <<"p", "a">>, <<"h", "a">>, <<"z">>}
Scores == {0, 4, 5, 6}
\* params: the sequence of the (key, value) pairs of the dict
Params == {<<>>, << <<"project", "SEC">> >>}

ConstructorInputs ==
    [variant : Variants,
     value : {None} \cup {Some(v) : v \in Values},
     operator : {None, Some(""), Some("not_supported")} \cup {Some(o) : o \in OperatorNames},
     minimum_score : {None, Some(MinScore - 1), Some(MaxScore), Some(MaxScore + 1)}
                        \cup {Some(n) : n \in Scores},
     stop_after_match : BOOLEAN,
     params : Params]

\* rule dicts: a supported or unknown type, and at most one key left out
FullRuleDicts ==
    [type : RuleTypes \cup {"unknown"},
     value : {None, Some(<<>>), Some(<<"a">>)},
     operator : {Some(""), Some("not_supported"), Some("equals"), Some("contains")},
     minimumScore : {None, Some(MinScore - 1), Some(MinScore), Some(MaxScore), Some(MaxScore + 1)},
     stopAfterMatch : BOOLEAN,
     params : Params]

RuleDicts ==
    FullRuleDicts \cup
    {Restrict(d, (DOMAIN d) \ {k}) : d \in FullRuleDicts,
        k \in {"type", "value", "operator", "params", "minimumScore", "stopAfterMatch"}}

InitRule ==
    /\ objs = <<>>
    /\ sd = None
    /\ match = None
    /\ remainder = None
    /\ last = [op |-> "none"]
    /\ rule = None
    /\ pc = "rule"
    /\ MainIdle

\* rule = Variant(value, operator, minimum_score, stop_after_match, params)
Construct(a) ==
    /\ pc = "rule"
    /\ pc' = "built"
    /\ LET res == Rule_init(a.variant, a.value, a.operator, a.minimum_score,
                            a.stop_after_match, a.params)
       IN /\ rule' = res.rule
          /\ last' = [op |-> "init", args |-> a, raised |-> res.raised]
    /\ UNCHANGED <<objs, sd, match, remainder>>
    /\ UNCHANGED mainvars

\* rule = Rule.create(d)
Create(d) ==
    /\ pc = "rule"
    /\ pc' = "built"
    /\ LET res == Rule_create(d)
       IN /\ rule' = res.rule
          /\ last' = [op |-> "create", args |-> d, raised |-> res.raised]
    /\ UNCHANGED <<objs, sd, match, remainder>>
    /\ UNCHANGED mainvars

NextRule ==
    \/ \E a \in ConstructorInputs : Construct(a)
    \/ \E d \in RuleDicts : Create(d)

SpecRule == InitRule /\ [][NextRule]_vars

\* ---------------------------------------------------------------- matching
\* the rules that can be built: every operator and value without a
\* minimum_score, and every minimum_score of Scores with "contains"
Rules ==
    {res.rule[1] : res \in
        {r \in {Rule_init(a.variant, a.value, a.operator, a.minimum_score,
                          a.stop_after_match, a.params) :
                    a \in {b \in ConstructorInputs :
                              \/ b.minimum_score = None
                              \/ /\ b.minimum_score \in {Some(n) : n \in Scores}
                                 /\ b.operator = Some("contains")}} :
            r.raised = ""}}

InitMatch ==
    /\ \E raw \in RawRecords : objs = [x \in {<<0>>} |-> create(raw, 0)]
    /\ sd = <<0>>
    /\ match = None
    /\ remainder = None
    /\ last = [op |-> "none"]
    /\ rule = None
    /\ pc = "match"
    /\ MainIdle

\* match, remainder = rule.match(sd); sd is the object <<0>> (or None) and a
\* copy is the object <<1>>
Match(r) ==
    /\ pc = "match"
    /\ LET res == Rule_match(r, objs, sd, 1)
       IN /\ match' = res.match
          /\ remainder' = res.remainder
          /\ objs' = Referenced(res.objs, {sd, res.match, res.remainder})
    /\ rule' = Some(r)
    /\ last' = [op |-> "match", obj |-> sd,
                before |-> IF sd = None THEN None ELSE objs[sd]]
    /\ pc' = "matched"
    /\ UNCHANGED sd
    /\ UNCHANGED mainvars

\* the object h under the name <<0>>
Renamed(H, h) ==
    [x \in {<<0>>} |->
        [H[h] EXCEPT
            !.affected_entities = [i \in DOMAIN @ |-> <<0, entity_id(@[i])>>],
            !.related_hosts =
                [k \in DOMAIN @ |->
                    [@[k] EXCEPT !.affected_entities = {<<0, entity_id(a)>> : a \in @}]]]]

\* sd = remainder.  match is not read again before its next assignment: the
\* matched graph is forgotten here, and the object sd refers to is called <<0>>.
Advance ==
    /\ pc = "matched"
    /\ sd' = IF remainder = None THEN None ELSE <<0>>
    /\ objs' = IF remainder = None THEN <<>> ELSE Renamed(Referenced(objs, {remainder}), remainder)
    /\ match' = None
    /\ remainder' = None
    /\ last' = [op |-> "none"]
    /\ rule' = None
    /\ pc' = "match"
    /\ UNCHANGED mainvars

NextMatch ==
    \/ \E r \in Rules : Match(r)
    \/ Advance

\* a SecurityData object and the rules matched against it, one after another
SpecMatch == InitMatch /\ [][NextMatch]_vars

\* ===================================================== SecurityData.create
\* the keys SecurityData.create reads from the security problem, as paths
TopLevelKeys ==
    {<<"affectedEntities">>, <<"relatedEntities">>, <<"relatedEntities", "hosts">>,
     <<"securityProblemId">>, <<"displayId">>, <<"title">>, <<"url">>,
     <<"riskAssessment">>, <<"riskAssessment", "riskScore">>,
     <<"riskAssessment", "riskLevel">>, <<"riskAssessment", "exposure">>,
     <<"riskAssessment", "dataAssets">>, <<"description">>, <<"technology">>,
     <<"vulnerableComponents">>, <<"vulnerableComponents", "displayName">>}

\* the keys of the k-th entry of relatedEntities.hosts
HostKeys(k) == {<<"host", "id", k>>, <<"host", "affectedEntities", k>>}

\* SecurityData.create(security_problem, all_affected_entities,
\* all_related_hosts): security_problem is raw without the keys in absent, the
\* lookup tables hold the details of the ids in affected_details and in
\* host_details.  A KeyError becomes a ValueError; the result is the exception
\* raised ("" for none) and the object <<g>> built (None when it raised).
SecurityData_create(raw, absent, affected_details, host_details, g) ==
    IF <<"affectedEntities">> \in absent
        THEN [raised |-> "ValueError", graph |-> None]
    ELSE IF ~(raw.affectedEntities \subseteq affected_details)
        THEN [raised |-> "ValueError", graph |-> None]
    ELSE IF <<"relatedEntities">> \in absent \/ <<"relatedEntities", "hosts">> \in absent
        THEN [raised |-> "ValueError", graph |-> None]
    ELSE IF \E k \in DOMAIN raw.hosts :
                \/ <<"host", "id", k>> \in absent
                \/ raw.hosts[k].id \notin host_details
                \* x['affectedEntities'] is read once per AffectedEntity built
                \/ (raw.affectedEntities # {} /\ <<"host", "affectedEntities", k>> \in absent)
        THEN [raised |-> "ValueError", graph |-> None]
    ELSE IF \E path \in TopLevelKeys : path \in absent
        THEN [raised |-> "ValueError", graph |-> None]
    ELSE IF raw.riskScore < MinScore \/ raw.riskScore > MaxScore
        THEN [raised |-> "ValidationError", graph |-> None]
    ELSE [raised |-> "", graph |-> Some(create(raw, g))]

\* the calls with one record: nothing wrong, one key left out, or one id whose
\* details a lookup table lacks
CreateCalls(raw) ==
    {[raw |-> raw, absent |-> absent, affected_details |-> AffectedIds, host_details |-> HostIds] :
        absent \in {{}} \cup {{path} : path \in TopLevelKeys \cup UNION {HostKeys(k) : k \in DOMAIN raw.hosts}}}
    \cup {[raw |-> raw, absent |-> {}, affected_details |-> AffectedIds \ {i}, host_details |-> HostIds] :
            i \in AffectedIds}
    \cup {[raw |-> raw, absent |-> {}, affected_details |-> AffectedIds, host_details |-> HostIds \ {h}] :
            h \in HostIds}

InitCreate ==
    /\ \E raw \in {x \in RawRecords : x.riskScore = 5} :
          \E call \in CreateCalls(raw) :
              last = [op |-> "none", call |-> call, raised |-> ""]
    /\ objs = <<>>
    /\ sd = None
    /\ match = None
    /\ remainder = None
    /\ rule = None
    /\ pc = "create"
    /\ MainIdle

\* sd = SecurityData.create(...)
CreateGraph ==
    /\ pc = "create"
    /\ LET res == SecurityData_create(last.call.raw, last.call.absent,
                                      last.call.affected_details, last.call.host_details, 0)
       IN /\ objs' = IF res.graph = None THEN objs ELSE [x \in {<<0>>} |-> res.graph[1]]
          /\ sd' = IF res.graph = None THEN None ELSE <<0>>
          /\ last' = [last EXCEPT !.op = "create", !.raised = res.raised]
    /\ pc' = "created"
    /\ UNCHANGED <<match, remainder, rule>>
    /\ UNCHANGED mainvars

NextCreate == CreateGraph

\* one call of SecurityData.create
SpecCreate == InitCreate /\ [][NextCreate]_vars

\* ============================================================ hex_id, read
IgnoreCaseBytes == <<"I", "g", "n", "o", "r", "e", "C", "a", "s", "e">>

HexValues == {<<"h", "a">>, IgnoreCaseBytes \o <<"h", "a">>}
HexScores == {None, Some(MaxScore), SomeFloat(MaxScore)}
HexParams == {<< <<"project", "SEC">> >>, << <<"project", "OPS">>, <<"assignee", "me">> >>}

\* the rules whose hex_id is read
HexRules ==
    {res.rule[1] : res \in
        {r \in {Rule_init(variant, Some(value), Some(operator), minimum_score,
                          stop_after_match, params) :
                    variant \in Variants, value \in HexValues,
                    operator \in {"equals", "equalsIgnoreCase"},
                    minimum_score \in HexScores, stop_after_match \in BOOLEAN,
                    params \in HexParams} :
            r.raised = ""}}

\* two rules and a security problem; none of the rules has matched yet
InitHex ==
    /\ rules \in [1..2 -> HexRules]
    /\ objs = [x \in {<<0>>} |->
                  create([affectedEntities |-> AffectedIds,
                          hosts |-> [h \in HostIds |-> [id |-> h, affectedEntities |-> {h}]],
                          riskScore |-> 5], 0)]
    /\ sd = <<0>>
    /\ match = None
    /\ remainder = None
    /\ rule = None
    /\ last = [op |-> "none", matched |-> FALSE, ids |-> <<>>, inputs |-> <<>>]
    /\ pc = "hex"
    /\ config = <<>>
    /\ security_data_list = <<>>
    /\ rule_iter = <<>>
    /\ calls = <<>>

\* match, remainder = rules[1].match(sd): match() assigns no attribute of the rule
MatchFirst ==
    /\ pc = "hex"
    /\ ~last.matched
    /\ LET res == Rule_match(rules[1], objs, sd, 1)
       IN /\ match' = res.match
          /\ remainder' = res.remainder
          /\ objs' = Referenced(res.objs, {sd, res.match, res.remainder})
    /\ rule' = Some(rules[1])
    /\ last' = [last EXCEPT !.op = "match", !.matched = TRUE]
    /\ UNCHANGED <<sd, pc, rules, config, security_data_list, rule_iter, calls>>

\* rules[1].hex_id, rules[2].hex_id
ReadHexIds ==
    /\ pc = "hex"
    /\ last' = [last EXCEPT !.op = "hex_id",
                            !.ids = [k \in 1..2 |-> hex_id(rules[k])],
                            !.inputs = [k \in 1..2 |-> hex_id_input(rules[k])]]
    /\ pc' = "hexed"
    /\ UNCHANGED <<objs, sd, match, remainder, rule>>
    /\ UNCHANGED mainvars

NextHex ==
    \/ MatchFirst
    \/ ReadHexIds

SpecHex == InitHex /\ [][NextHex]_vars

\* ==================================================================== main()
MaxRules == 2
MaxRecords == 2

\* ------------------------------------------------------- JiraConnection
\* what the JIRA server does during one handoff: search_issues raises a
\* JIRAError or returns `hits` issues whose summary starts with the prefix,
\* create_issue and add_comment work or raise a JIRAError; assign_issue is
\* not called (no assignee among the parameters), works or raises
JiraAnswers ==
    {[search |-> "raise", hits |-> 0, create |-> "ok", comment |-> "ok", assign |-> "none"],
     [search |-> "ok", hits |-> 0, create |-> "ok", comment |-> "ok", assign |-> "none"],
     [search |-> "ok", hits |-> 0, create |-> "raise", comment |-> "ok", assign |-> "none"],
     [search |-> "ok", hits |-> 1, create |-> "ok", comment |-> "ok", assign |-> "none"],
     [search |-> "ok", hits |-> 1, create |-> "ok", comment |-> "raise", assign |-> "none"],
     [search |-> "ok", hits |-> 2, create |-> "ok", comment |-> "ok", assign |-> "none"]}

\* JiraConnection.get_issues_with_summary_prefix: the exception raised ("" for
\* none), the number of issue keys returned and the number of requests made
\* on authed_jira
get_issues_with_summary_prefix(dry_run, ans) ==
    IF dry_run THEN [raised |-> "", hits |-> 0, requests |-> 0]
    ELSE IF ans.search = "raise" THEN [raised |-> "JIRAError", hits |-> 0, requests |-> 1]
    ELSE [raised |-> "", hits |-> ans.hits, requests |-> 1]

\* mutant: dry_run is not looked at
create_issue_NoDryRun(dry_run, ans) ==
    IF ans.create = "raise"
        THEN [raised |-> "RuntimeError", mutated |-> FALSE, requests |-> 1, returned |-> None]
    ELSE IF ans.assign = "none"
        THEN [raised |-> "", mutated |-> TRUE, requests |-> 1, returned |-> Some("key")]
    ELSE IF ans.assign = "raise"
        THEN [raised |-> "JIRAError", mutated |-> TRUE, requests |-> 2, returned |-> None]
    ELSE [raised |-> "", mutated |-> TRUE, requests |-> 2, returned |-> Some("key")]

\* JiraConnection.create_issue: the exception raised, whether JIRA now holds a
\* new issue, the number of requests made on authed_jira and the key returned
create_issue(dry_run, ans) ==
    IF dry_run THEN [raised |-> "", mutated |-> FALSE, requests |-> 0, returned |-> None]
    ELSE IF ans.create = "raise"
        THEN [raised |-> "RuntimeError", mutated |-> FALSE, requests |-> 1, returned |-> None]
    ELSE IF ans.assign = "none"
        THEN [raised |-> "", mutated |-> TRUE, requests |-> 1, returned |-> Some("key")]
    ELSE IF ans.assign = "raise"
        THEN [raised |-> "JIRAError", mutated |-> TRUE, requests |-> 2, returned |-> None]
    ELSE [raised |-> "", mutated |-> TRUE, requests |-> 2, returned |-> Some("key")]

\* JiraConnection.add_comment, for a comment that is not empty
add_comment(dry_run, ans) ==
    IF dry_run THEN [raised |-> "", mutated |-> FALSE, requests |-> 0, returned |-> None]
    ELSE IF ans.comment = "raise"
        THEN [raised |-> "JIRAError", mutated |-> FALSE, requests |-> 1, returned |-> None]
    ELSE [raised |-> "", mutated |-> TRUE, requests |-> 1, returned |-> Some("comment")]

\* the calls made on the collaborators so far (their call counts) and the
\* number of issues created and comments added in JIRA
NoCalls ==
    [get_open_security_problems |-> 0, get_issues_with_summary_prefix |-> 0,
     create_issue |-> 0, add_comment |-> 0, mutations |-> 0]

\* mutant: an issue is created whatever the search found
write_to_jira_AlwaysCreate(c, add_comments, dry_run, ans) ==
    LET found == get_issues_with_summary_prefix(dry_run, ans)
        c1 == [c EXCEPT !.get_issues_with_summary_prefix = @ + 1]
        created == create_issue(dry_run, ans)
    IN IF found.raised # "" THEN [calls |-> c1, raised |-> found.raised, hits |-> -1]
       ELSE [calls |-> [c1 EXCEPT !.create_issue = @ + 1,
                                  !.mutations = @ + (IF created.mutated THEN 1 ELSE 0)],
             raised |-> created.raised, hits |-> found.hits]

\* write_to_jira: the call counts after it, the exception that left it ("" for
\* none) and the number of issue keys the search returned (-1: it raised)
write_to_jira(c, add_comments, dry_run, ans) ==
    LET found == get_issues_with_summary_prefix(dry_run, ans)
        c1 == [c EXCEPT !.get_issues_with_summary_prefix = @ + 1]
        commented == add_comment(dry_run, ans)
        created == create_issue(dry_run, ans)
    IN IF found.raised # "" THEN [calls |-> c1, raised |-> found.raised, hits |-> -1]
       ELSE IF found.hits > 0
           THEN IF found.hits = 1 /\ add_comments
                   THEN [calls |-> [c1 EXCEPT !.add_comment = @ + 1,
                                              !.mutations = @ + (IF commented.mutated THEN 1 ELSE 0)],
                         raised |-> commented.raised, hits |-> found.hits]
                   ELSE [calls |-> c1, raised |-> "", hits |-> found.hits]
       ELSE [calls |-> [c1 EXCEPT !.create_issue = @ + 1,
                                  !.mutations = @ + (IF created.mutated THEN 1 ELSE 0)],
             raised |-> created.raised, hits |-> found.hits]

\* ----------------------------------------------------------------- inputs
MainParams == << <<"project", "SEC">> >>

\* config.rules entries: three that build a rule (one of each type) and four
\* that do not
ValidRuleDicts ==
    {[type |-> "hostname", value |-> Some(<<"h", "a">>), operator |-> Some("equals"),
      params |-> MainParams],
     [type |-> "affectedEntity", value |-> Some(<<"P">>), operator |-> Some("startswith"),
      stopAfterMatch |-> TRUE, params |-> MainParams],
     [type |-> "affectedEntityTag", value |-> Some(<<>>), operator |-> Some("contains"),
      minimumScore |-> Some(6), stopAfterMatch |-> TRUE, params |-> MainParams]}

InvalidRuleDicts ==
    {[type |-> "unknown", value |-> Some(<<"a">>), operator |-> Some("equals"),
      params |-> MainParams],
     [type |-> "hostname", value |-> Some(<<"a">>), operator |-> Some("not_supported"),
      params |-> MainParams],
     [type |-> "affectedEntity", value |-> Some(<<"a">>), operator |-> Some("equals"),
      params |-> <<>>],
     [type |-> "affectedEntity", value |-> Some(<<"a">>), operator |-> Some("equals"),
      minimumScore |-> Some(MaxScore + 1), params |-> MainParams]}

RECURSIVE SeqsUpTo(_, _)
\* the sequences over S of length at most n
SeqsUpTo(S, n) ==
    IF n = 0 THEN {<<>>}
    ELSE LET shorter == SeqsUpTo(S, n - 1)
         IN shorter \cup {Append(q, x) : q \in shorter, x \in S}

\* the configuration, and the two switches main() is called with
Configs ==
    [rules : SeqsUpTo(ValidRuleDicts \cup InvalidRuleDicts, MaxRules),
     ignore_rest : BOOLEAN,
     add_comments : BOOLEAN,
     dry_run : BOOLEAN]

\* the records of the provider: every affected entity with a host each, no
\* affected entity at all, and every affected entity with a host that refers
\* to none of them (risk score 6)
MainRecords ==
    {[affectedEntities |-> AffectedIds,
      hosts |-> [h \in HostIds |-> [id |-> h, affectedEntities |-> {h}]],
      riskScore |-> 5],
     [affectedEntities |-> {}, hosts |-> <<>>, riskScore |-> 5],
     [affectedEntities |-> AffectedIds,
      hosts |-> <<[id |-> 1, affectedEntities |-> {}]>>,
      riskScore |-> 6]}

\* ------------------------------------------------------------------- main
\* last, in main(): the step just made (op), the exception that ended the run
\* (raised), the handoffs to write_to_jira made for the record in hand (for
\* each: the rule's position or 0, its id and params, the ids of the affected
\* entities handed over and the number of issues the search found), the ids
\* of the affected entities the record came with (record), what the latest
\* step handed over (w), and whether a stop_after_match rule has matched the
\* record in hand
MainStart ==
    [op |-> "none", raised |-> "", handoffs |-> <<>>, record |-> {},
     w |-> [called |-> FALSE], stopped |-> FALSE, fetched |-> 0, processed |-> 0]

InitMain ==
    /\ config \in Configs
    /\ rules = <<>>
    /\ security_data_list = 0
    /\ rule_iter = <<>>
    /\ calls = NoCalls
    /\ objs = <<>>
    /\ sd = None
    /\ match = None
    /\ remainder = None
    /\ rule = None
    /\ last = MainStart
    /\ pc = "main"

\* mutant: the provider is asked before the rules are built
BuildRules_FetchFirst ==
    /\ pc = "main"
    /\ LET built == [k \in DOMAIN config.rules |-> Rule_create(config.rules[k])]
           bad == {k \in DOMAIN built : built[k].raised # ""}
       IN /\ calls' = [calls EXCEPT !.get_open_security_problems = @ + 1]
          /\ IF bad # {}
                THEN /\ rules' = rules
                     /\ last' = [last EXCEPT !.op = "build", !.raised = "ValueError"]
                     /\ pc' = "aborted"
                ELSE /\ rules' = [k \in DOMAIN built |-> built[k].rule[1]]
                     /\ last' = [last EXCEPT !.op = "build"]
                     /\ pc' = "open"
    /\ security_data_list' = 1
    /\ UNCHANGED <<objs, sd, match, remainder, rule, config, rule_iter>>

\* mutant: a run without rules aborts whatever ignore_rest says
BuildRules_NoRulesAbort ==
    /\ pc = "main"
    /\ LET built == [k \in DOMAIN config.rules |-> Rule_create(config.rules[k])]
           bad == {k \in DOMAIN built : built[k].raised # ""}
       IN IF bad # {}
             THEN /\ rules' = rules
                  /\ last' = [last EXCEPT !.op = "build", !.raised = "ValueError"]
                  /\ pc' = "aborted"
             ELSE /\ rules' = [k \in DOMAIN built |-> built[k].rule[1]]
                  /\ IF rules' = <<>>
                        THEN /\ last' = [last EXCEPT !.op = "build", !.raised = "SystemExit"]
                             /\ pc' = "aborted"
                        ELSE /\ last' = [last EXCEPT !.op = "build"]
                             /\ pc' = "fetch"
    /\ UNCHANGED <<objs, sd, match, remainder, rule, config, security_data_list,
                   rule_iter, calls>>

\* rules = [Rule.create(x) for x in config.rules], and the check that
\* ignore_rest comes with a rule
BuildRules ==
    /\ pc = "main"
    /\ LET built == [k \in DOMAIN config.rules |-> Rule_create(config.rules[k])]
           bad == {k \in DOMAIN built : built[k].raised # ""}
       IN IF bad # {}
             THEN /\ rules' = rules
                  /\ last' = [last EXCEPT !.op = "build", !.raised = "ValueError"]
                  /\ pc' = "aborted"
             ELSE /\ rules' = [k \in DOMAIN built |-> built[k].rule[1]]
                  /\ IF config.ignore_rest /\ rules' = <<>>
                        THEN /\ last' = [last EXCEPT !.op = "build", !.raised = "SystemExit"]
                             /\ pc' = "aborted"
                        ELSE /\ last' = [last EXCEPT !.op = "build"]
                             /\ pc' = "fetch"
    /\ UNCHANGED <<objs, sd, match, remainder, rule, config, security_data_list,
                   rule_iter, calls>>

\* security_data_list = get_dynatrace_security_data(dt_conn): the provider's
\* answer is refused (ValidationError, ValueError: sys.exit) or gives n
\* records.  The list is only read one record at a time, so what a record
\* holds is drawn when its turn comes and security_data_list is the number of
\* records still to come.
Fetch(n, refused) ==
    /\ pc = "fetch"
    /\ calls' = [calls EXCEPT !.get_open_security_problems = @ + 1]
    /\ IF refused
          THEN /\ security_data_list' = security_data_list
               /\ last' = [last EXCEPT !.op = "fetch", !.raised = "SystemExit"]
               /\ pc' = "aborted"
          ELSE /\ security_data_list' = n
               /\ last' = [last EXCEPT !.op = "fetch", !.fetched = n]
               /\ pc' = "open"
    /\ UNCHANGED <<objs, sd, match, remainder, rule, config, rules, rule_iter>>

\* with JiraConnection(...) as jira_conn: the connection opens, or (when it is
\* not a dry run) raises a ValueError
OpenJira(fails) ==
    /\ pc = "open"
    /\ IF fails /\ ~config.dry_run
          THEN /\ last' = [last EXCEPT !.op = "open", !.raised = "ValueError"]
               /\ pc' = "aborted"
          ELSE /\ last' = [last EXCEPT !.op = "open"]
               /\ pc' = "record"
    /\ UNCHANGED <<objs, sd, match, remainder, rule, config, rules,
                   security_data_list, rule_iter, calls>>

\* for sd in security_data_list: the next record
NextRecord(raw) ==
    /\ pc = "record"
    /\ security_data_list > 0
    /\ security_data_list' = security_data_list - 1
    /\ objs' = [x \in {<<0>>} |-> create(raw, 0)]
    /\ sd' = <<0>>
    /\ rule_iter' = rules
    /\ last' = [last EXCEPT !.op = "record", !.handoffs = <<>>,
                            !.record = raw.affectedEntities,
                            !.w = [called |-> FALSE], !.stopped = FALSE]
    /\ pc' = "chain"
    /\ UNCHANGED <<match, remainder, rule, config, rules, calls>>

\* the objects of H under the names f gives them
Rename(H, f) ==
    [x \in {f[h] : h \in DOMAIN H} |->
        LET h == CHOOSE y \in DOMAIN H : f[y] = x
        IN [H[h] EXCEPT
              !.affected_entities = [i \in DOMAIN @ |-> <<x[1], entity_id(@[i])>>],
              !.related_hosts =
                  [k \in DOMAIN @ |->
                      [@[k] EXCEPT !.affected_entities =
                          {<<f[<<a[1]>>][1], entity_id(a)>> : a \in @}]]]]

\* the working graph is called <<0>> and the matched one <<1>>
Canonical(m, r) ==
    [h \in {m, r} \ {None} |-> IF h = r THEN <<0>> ELSE <<1>>]

\* mutant: what a match leaves over is not passed on to the next rule
RuleStep_DropRemainder(ans) ==
    /\ pc = "chain"
    /\ rule_iter # <<>>
    /\ LET r == Head(rule_iter)
           res == Rule_match(r, objs, sd, 2)
           H == Referenced(res.objs, {sd, res.match, res.remainder})
           w == IF res.match # None
                   THEN write_to_jira(calls, config.add_comments, config.dry_run, ans)
                   ELSE [calls |-> calls, raised |-> "", hits |-> 0]
           f == Canonical(res.match, res.remainder)
           handoff == [by |-> "rule", id |-> hex_id(r), params |-> r.params,
                       rule |-> Len(rules) - Len(rule_iter) + 1,
                       ids |-> DOMAIN H[res.match].affected_entities, hits |-> w.hits]
       IN /\ rule' = Some(r)
          /\ calls' = w.calls
          /\ IF w.raised # ""
                THEN /\ objs' = H
                     /\ match' = res.match
                     /\ remainder' = res.remainder
                     /\ sd' = sd
                     /\ rule_iter' = rule_iter
                     /\ last' = [last EXCEPT !.op = "rule", !.raised = w.raised,
                                    !.handoffs = Append(@, handoff),
                                    !.w = [called |-> TRUE, hits |-> w.hits, before |-> calls]]
                     /\ pc' = "aborted"
                ELSE /\ objs' = Rename(Referenced(H, {res.match, res.remainder}), f)
                     /\ match' = IF res.match = None THEN None ELSE f[res.match]
                     /\ remainder' = IF res.remainder = None THEN None ELSE f[res.remainder]
                     /\ sd' = IF res.match # None THEN None ELSE remainder'
                     /\ rule_iter' = Tail(rule_iter)
                     /\ last' = [last EXCEPT !.op = "rule",
                                    !.handoffs = IF res.match # None THEN Append(@, handoff) ELSE @,
                                    !.w = IF res.match # None
                                             THEN [called |-> TRUE, hits |-> w.hits, before |-> calls]
                                             ELSE [called |-> FALSE],
                                    !.stopped = @ \/ (res.match # None /\ r.stop_after_match)]
                     /\ pc' = "chain"
    /\ UNCHANGED <<config, rules, security_data_list>>

\* one turn of `for rule in rules`: match, the handoff of a match, sd = remainder
RuleStep(ans) ==
    /\ pc = "chain"
    /\ rule_iter # <<>>
    /\ LET r == Head(rule_iter)
           res == Rule_match(r, objs, sd, 2)
           H == Referenced(res.objs, {sd, res.match, res.remainder})
           w == IF res.match # None
                   THEN write_to_jira(calls, config.add_comments, config.dry_run, ans)
                   ELSE [calls |-> calls, raised |-> "", hits |-> 0]
           f == Canonical(res.match, res.remainder)
           handoff == [by |-> "rule", id |-> hex_id(r), params |-> r.params,
                       rule |-> Len(rules) - Len(rule_iter) + 1,
                       ids |-> DOMAIN H[res.match].affected_entities, hits |-> w.hits]
       IN /\ rule' = Some(r)
          /\ calls' = w.calls
          /\ IF w.raised # ""
                THEN /\ objs' = H
                     /\ match' = res.match
                     /\ remainder' = res.remainder
                     /\ sd' = sd
                     /\ rule_iter' = rule_iter
                     /\ last' = [last EXCEPT !.op = "rule", !.raised = w.raised,
                                    !.handoffs = Append(@, handoff),
                                    !.w = [called |-> TRUE, hits |-> w.hits, before |-> calls]]
                     /\ pc' = "aborted"
                ELSE /\ objs' = Rename(Referenced(H, {res.match, res.remainder}), f)
                     /\ match' = IF res.match = None THEN None ELSE f[res.match]
                     /\ remainder' = IF res.remainder = None THEN None ELSE f[res.remainder]
                     /\ sd' = remainder'
                     /\ rule_iter' = Tail(rule_iter)
                     /\ last' = [last EXCEPT !.op = "rule",
                                    !.handoffs = IF res.match # None THEN Append(@, handoff) ELSE @,
                                    !.w = IF res.match # None
                                             THEN [called |-> TRUE, hits |-> w.hits, before |-> calls]
                                             ELSE [called |-> FALSE],
                                    !.stopped = @ \/ (res.match # None /\ r.stop_after_match)]
                     /\ pc' = "chain"
    /\ UNCHANGED <<config, rules, security_data_list>>

\* mutant: a remainder without affected entities is handed over too
DefaultAction_NoEntityCheck(ans) ==
    /\ pc = "chain"
    /\ rule_iter = <<>>
    /\ LET due == sd # None /\ ~config.ignore_rest
           w == IF due
                   THEN write_to_jira(calls, config.add_comments, config.dry_run, ans)
                   ELSE [calls |-> calls, raised |-> "", hits |-> 0]
           handoff == [by |-> "default", id |-> <<"0">>, params |-> <<>>, rule |-> 0,
                       ids |-> DOMAIN objs[sd].affected_entities, hits |-> w.hits]
       IN /\ calls' = w.calls
          /\ last' = [last EXCEPT !.op = "default", !.raised = w.raised,
                         !.handoffs = IF due THEN Append(@, handoff) ELSE @,
                         !.w = IF due THEN [called |-> TRUE, hits |-> w.hits, before |-> calls]
                                      ELSE [called |-> FALSE],
                         !.processed = IF w.raised = "" THEN @ + 1 ELSE @]
          /\ pc' = IF w.raised # "" THEN "aborted" ELSE "record"
    /\ UNCHANGED <<objs, sd, match, remainder, rule, config, rules,
                   security_data_list, rule_iter>>

\* mutant: the remainder is handed over whatever ignore_rest says
DefaultAction_IgnoreSwitch(ans) ==
    /\ pc = "chain"
    /\ rule_iter = <<>>
    /\ LET due == sd # None /\ DOMAIN objs[sd].affected_entities # {}
           w == IF due
                   THEN write_to_jira(calls, config.add_comments, config.dry_run, ans)
                   ELSE [calls |-> calls, raised |-> "", hits |-> 0]
           handoff == [by |-> "default", id |-> <<"0">>, params |-> <<>>, rule |-> 0,
                       ids |-> DOMAIN objs[sd].affected_entities, hits |-> w.hits]
       IN /\ calls' = w.calls
          /\ last' = [last EXCEPT !.op = "default", !.raised = w.raised,
                         !.handoffs = IF due THEN Append(@, handoff) ELSE @,
                         !.w = IF due THEN [called |-> TRUE, hits |-> w.hits, before |-> calls]
                                      ELSE [called |-> FALSE],
                         !.processed = IF w.raised = "" THEN @ + 1 ELSE @]
          /\ pc' = IF w.raised # "" THEN "aborted" ELSE "record"
    /\ UNCHANGED <<objs, sd, match, remainder, rule, config, rules,
                   security_data_list, rule_iter>>

\* after the last rule: the default action on what is left of the record
DefaultAction(ans) ==
    /\ pc = "chain"
    /\ rule_iter = <<>>
    /\ LET due == /\ sd # None
                  /\ DOMAIN objs[sd].affected_entities # {}
                  /\ ~config.ignore_rest
           w == IF due
                   THEN write_to_jira(calls, config.add_comments, config.dry_run, ans)
                   ELSE [calls |-> calls, raised |-> "", hits |-> 0]
           handoff == [by |-> "default", id |-> <<"0">>, params |-> <<>>, rule |-> 0,
                       ids |-> DOMAIN objs[sd].affected_entities, hits |-> w.hits]
       IN /\ calls' = w.calls
          /\ last' = [last EXCEPT !.op = "default", !.raised = w.raised,
                         !.handoffs = IF due THEN Append(@, handoff) ELSE @,
                         !.w = IF due THEN [called |-> TRUE, hits |-> w.hits, before |-> calls]
                                      ELSE [called |-> FALSE],
                         !.processed = IF w.raised = "" THEN @ + 1 ELSE @]
          /\ pc' = IF w.raised # "" THEN "aborted" ELSE "record"
    /\ UNCHANGED <<objs, sd, match, remainder, rule, config, rules,
                   security_data_list, rule_iter>>

\* the list is exhausted: JiraConnection.__exit__, and main() returns
Finish ==
    /\ pc = "record"
    /\ security_data_list = 0
    /\ last' = [last EXCEPT !.op = "finish"]
    /\ pc' = "done"
    /\ UNCHANGED <<objs, sd, match, remainder, rule, config, rules,
                   security_data_list, rule_iter, calls>>

NextMain ==
    \/ BuildRules
    \/ \E n \in 0..MaxRecords, refused \in BOOLEAN : Fetch(n, refused)
    \/ \E fails \in BOOLEAN : OpenJira(fails)
    \/ \E raw \in MainRecords : NextRecord(raw)
    \/ \E ans \in JiraAnswers : RuleStep(ans)
    \/ \E ans \in JiraAnswers : DefaultAction(ans)
    \/ Finish

\* one run of main()
SpecMain == InitMain /\ [][NextMain]_vars

\* ================================================ one record, one JIRA store
MaxChain == 3

\* config.rules entries that build a rule: those of ValidRuleDicts but the tag
\* rule, name rules several of which are satisfied by one name, and two name
\* rules that differ in value and minimumScore
ChainRuleDicts ==
    {d \in ValidRuleDicts : d.type # "affectedEntityTag"} \cup
    {[type |-> "affectedEntity", value |-> Some(<<"p">>), operator |-> Some("startswith"),
      params |-> MainParams],
     [type |-> "affectedEntity", value |-> Some(<<"a">>), operator |-> Some("contains"),
      params |-> MainParams],
     [type |-> "affectedEntity", value |-> Some(<<"p", "a", "1">>), operator |-> Some("equals"),
      minimumScore |-> Some(0), params |-> MainParams],
     [type |-> "affectedEntity", value |-> Some(<<"p", "a">>), operator |-> Some("equals"),
      minimumScore |-> Some(MaxScore), params |-> MainParams]}

\* the records of the provider: those of MainRecords, and one with the affected
\* entity 0 too, all of them on one host (risk score MaxScore)
ChainRecords ==
    MainRecords \cup
    {[affectedEntities |-> {0} \cup AffectedIds,
      hosts |-> <<[id |-> 1, affectedEntities |-> {0} \cup AffectedIds]>>,
      riskScore |-> MaxScore]}

\* _get_params(params)['project']: the rule's project, or the one of
\* jira_defaults
JiraProject(params) ==
    IF \E k \in DOMAIN params : params[k][1] = "project"
        THEN (params[CHOOSE k \in DOMAIN params : params[k][1] = "project"])[2]
        ELSE "DEFAULT"

\* a JIRA that held no issue of the record when the run began and does what it
\* is asked: search_issues finds the issues the earlier handoffs of the run
\* created in the project with the summary prefix of id
StoreAnswer(handoffs, id, params) ==
    [search |-> "ok",
     hits |-> Cardinality({k \in DOMAIN handoffs :
                              /\ handoffs[k].id = id
                              /\ JiraProject(handoffs[k].params) = JiraProject(params)
                              /\ handoffs[k].hits = 0}),
     create |-> "ok", comment |-> "ok", assign |-> "none"]

\* main() inside the with block, the rules built and one record fetched
InitChain ==
    /\ \E ds \in SeqsUpTo(ChainRuleDicts, MaxChain), ignore_rest \in BOOLEAN, add_comments \in BOOLEAN :
          /\ ignore_rest => ds # <<>>
          /\ config = [rules |-> ds, ignore_rest |-> ignore_rest,
                       add_comments |-> add_comments, dry_run |-> FALSE]
          /\ rules = [k \in DOMAIN ds |-> Rule_create(ds[k]).rule[1]]
    /\ security_data_list = 1
    /\ rule_iter = <<>>
    /\ calls = [NoCalls EXCEPT !.get_open_security_problems = 1]
    /\ objs = <<>>
    /\ sd = None
    /\ match = None
    /\ remainder = None
    /\ rule = None
    /\ last = [MainStart EXCEPT !.op = "open", !.fetched = 1]
    /\ pc = "record"

\* one turn of `for rule in rules` against that JIRA
ChainRuleStep ==
    /\ rule_iter # <<>>
    /\ RuleStep(StoreAnswer(last.handoffs, hex_id(Head(rule_iter)), Head(rule_iter).params))

\* the default action against that JIRA
ChainDefaultAction == DefaultAction(StoreAnswer(last.handoffs, <<"0">>, <<>>))

NextChain ==
    \/ \E raw \in ChainRecords : NextRecord(raw)
    \/ ChainRuleStep
    \/ ChainDefaultAction
    \/ Finish

\* the rule chain and the default action on one record
SpecChain == InitChain /\ [][NextChain]_vars

\* ============================================== JiraConnection, called alone
MaxCalls == 3

\* what the JIRA server does when asked, with and without an assignee among
\* the parameters of create_issue
JiraCallAnswers ==
    JiraAnswers \cup
    {[search |-> "ok", hits |-> 0, create |-> "ok", comment |-> "ok", assign |-> "ok"],
     [search |-> "ok", hits |-> 0, create |-> "ok", comment |-> "ok", assign |-> "raise"]}

\* jira_conn = JiraConnection(..., dry_run); calls counts the method calls
\* made on it and the requests made on authed_jira
InitJira ==
    /\ config \in [dry_run : BOOLEAN]
    /\ calls = [made |-> 0, requests |-> 0]
    /\ last = [op |-> "none", ans |-> None, raised |-> "", returned |-> None]
    /\ pc = "jira"
    /\ objs = <<>>
    /\ sd = None
    /\ match = None
    /\ remainder = None
    /\ rule = None
    /\ rules = <<>>
    /\ security_data_list = <<>>
    /\ rule_iter = <<>>

\* jira_conn.get_issues_with_summary_prefix(prefix, params)
GetIssues(ans) ==
    /\ pc = "jira"
    /\ calls.made < MaxCalls
    /\ LET res == get_issues_with_summary_prefix(config.dry_run, ans)
       IN /\ calls' = [made |-> calls.made + 1, requests |-> calls.requests + res.requests]
          /\ last' = [op |-> "get_issues_with_summary_prefix", ans |-> Some(ans),
                      raised |-> res.raised,
                      returned |-> IF res.raised = "" THEN Some(res.hits) ELSE None]
    /\ UNCHANGED <<objs, sd, match, remainder, rule, pc, config, rules,
                   security_data_list, rule_iter>>

\* jira_conn.create_issue(summary, description, params)
CreateIssue(ans) ==
    /\ pc = "jira"
    /\ calls.made < MaxCalls
    /\ LET res == create_issue(config.dry_run, ans)
       IN /\ calls' = [made |-> calls.made + 1, requests |-> calls.requests + res.requests]
          /\ last' = [op |-> "create_issue", ans |-> Some(ans),
                      raised |-> res.raised, returned |-> res.returned]
    /\ UNCHANGED <<objs, sd, match, remainder, rule, pc, config, rules,
                   security_data_list, rule_iter>>

\* jira_conn.add_comment(issue_id, comment)
AddComment(ans) ==
    /\ pc = "jira"
    /\ calls.made < MaxCalls
    /\ LET res == add_comment(config.dry_run, ans)
       IN /\ calls' = [made |-> calls.made + 1, requests |-> calls.requests + res.requests]
          /\ last' = [op |-> "add_comment", ans |-> Some(ans),
                      raised |-> res.raised, returned |-> res.returned]
    /\ UNCHANGED <<objs, sd, match, remainder, rule, pc, config, rules,
                   security_data_list, rule_iter>>

NextJira ==
    \/ \E ans \in JiraCallAnswers : GetIssues(ans)
    \/ \E ans \in JiraCallAnswers : CreateIssue(ans)
    \/ \E ans \in JiraCallAnswers : AddComment(ans)

\* any sequence of calls on one JiraConnection
SpecJira == InitJira /\ [][NextJira]_vars

\* =================================================================== claims
RemovalOps == {"by_name", "by_tags", "by_hostnames"}

Ids(G) == DOMAIN G.affected_entities

NoEmptyRelatedEntity(G) ==
    \A k \in DOMAIN G.related_hosts : G.related_hosts[k].affected_entities # {}

NonEmptyRelatedHosts(G) ==
    SelectSeqBy(G.related_hosts,
                {k \in DOMAIN G.related_hosts : G.related_hosts[k].affected_entities # {}})

\* C2. No stale back-references: in every state reached from create() by
\* removals by name, by tag, by related hostname and deep copies, every
\* RelatedEntity's relation set holds only AffectedEntity objects that the
\* affected-entity mapping of the same graph currently holds.
C2_NoStaleBackReferences ==
    \A h \in DOMAIN objs :
        \A k \in DOMAIN objs[h].related_hosts :
            objs[h].related_hosts[k].affected_entities \subseteq Range(objs[h].affected_entities)

\* a removal on the copy took an entity out of a relation set that stays
\* non-empty: the source's RelatedEntity still refers to that entity
C2_Witness ==
    /\ last.op = "remove"
    /\ last.obj = remainder
    /\ \E k \in DOMAIN objs[remainder].related_hosts, j \in DOMAIN objs[sd].related_hosts :
          /\ objs[remainder].related_hosts[k].entity_id = objs[sd].related_hosts[j].entity_id
          /\ objs[remainder].related_hosts[k].affected_entities # {}
          /\ Cardinality(objs[remainder].related_hosts[k].affected_entities)
                < Cardinality(objs[sd].related_hosts[j].affected_entities)

\* C3 as stated. After any removal (by name, by tag or by related hostname,
\* remove_matches true or false) related_hosts holds no RelatedEntity whose
\* relation set is empty.
C3_AnyRemovalDropsEmpty ==
    last.op \in RemovalOps => NoEmptyRelatedEntity(objs[last.obj])

\* C3 as amended. After a removal by related hostname related_hosts holds no
\* RelatedEntity whose relation set is empty; after a removal by name or by
\* tag a RelatedEntity left with an empty relation set stays in related_hosts
\* and is only left out of the related_hostnames view.
C3_HostnameRemovalDropsEmpty ==
    /\ last.op = "by_hostnames" => NoEmptyRelatedEntity(objs[last.obj])
    /\ last.op \in {"by_name", "by_tags"} =>
          /\ Len(objs[last.obj].related_hosts) = Len(last.before.related_hosts)
          /\ Len(related_hostnames(objs[last.obj])) = Len(NonEmptyRelatedHosts(objs[last.obj]))

\* a removal by related hostname emptied a RelatedEntity, which is gone
C3_Witness ==
    /\ last.op = "by_hostnames"
    /\ NoEmptyRelatedEntity(last.before)
    /\ objs[last.obj].affected_entities # <<>>
    /\ Len(objs[last.obj].related_hosts) < Len(last.before.related_hosts)

\* C4. Clone independence: a removal applied to one SecurityData object
\* leaves every other object (the source when the copy is changed, the copy
\* when the source is changed) as it was: its affected-entity mapping, its
\* related hosts and their relation sets.
C4_CloneIndependence ==
    [][\A h \in DOMAIN objs :
          (last'.op = "remove" /\ last'.obj # h /\ h \in DOMAIN objs')
              => objs'[h] = objs[h]]_vars

\* a removal on the copy deleted an entity that a related host of the source
\* still refers to
C4_Witness ==
    /\ remainder # None
    /\ last.op = "remove"
    /\ last.obj = remainder
    /\ \E i \in Ids(objs[sd]) \ Ids(objs[remainder]) :
          \E k \in DOMAIN objs[sd].related_hosts :
              objs[sd].affected_entities[i] \in objs[sd].related_hosts[k].affected_entities

\* C5. Removal complement law (by name): remove_affected_entities_by_name(S,
\* True) followed by remove_affected_entities_by_name(S, False) on the same
\* graph leaves an empty affected-entity mapping.
C5_ComplementByName ==
    (last.op = "by_name" /\ last.complement) => Ids(objs[last.obj]) = {}

\* the pair was applied with a non-empty S that meets the original names, and
\* its second half had something left to delete
C5_Witness ==
    /\ last.op = "by_name"
    /\ last.complement
    /\ \E n \in last.arg : n \in Range(affected_entity_names(last.origin))
    /\ Ids(last.before) # {}
    /\ Ids(objs[last.obj]) = {}

\* every affected entity of G is referenced by a related host named in S
AllReferenced(G, S) ==
    \A a \in Range(G.affected_entities) :
        \E k \in DOMAIN G.related_hosts :
            /\ G.related_hosts[k].entity_name \in S
            /\ a \in G.related_hosts[k].affected_entities

ComplementByHostname ==
    (last.op = "by_hostnames" /\ last.complement) =>
        /\ affected_entity_names(objs[last.obj]) = <<>>
        /\ related_hostnames(objs[last.obj]) = <<>>

\* C6 as stated. remove_affected_entities_by_related_hostnames(S, True)
\* followed by (S, False) leaves the affected-entity names and the
\* related_hostnames view empty, and (S, False) is a no-op (the graph is what
\* it was) when every affected entity (there is one) is referenced by a host
\* named in S.
C6_ComplementByHostnameNoOp ==
    /\ ComplementByHostname
    /\ (/\ last.op = "by_hostnames"
        /\ ~last.remove_matches
        /\ Ids(last.before) # {}
        /\ AllReferenced(last.before, last.arg))
          => objs[last.obj] = last.before

\* C6 as amended. The pair leaves both views empty, and (S, False) with every
\* affected entity referenced by a host named in S leaves the affected-entity
\* mapping, the related_hostnames view and every non-empty relation set as
\* they were; the RelatedEntities whose relation set was already empty are
\* dropped from related_hosts.
C6_ComplementByHostnameKeepsViews ==
    /\ ComplementByHostname
    /\ (last.op = "by_hostnames" /\ ~last.remove_matches /\ AllReferenced(last.before, last.arg))
          => /\ objs[last.obj].affected_entities = last.before.affected_entities
             /\ related_hostnames(objs[last.obj]) = related_hostnames(last.before)
             /\ objs[last.obj].related_hosts = NonEmptyRelatedHosts(last.before)

\* the pair ran on a graph with two named hosts, one of them in S, and its
\* second half had entities left to delete
C6_Witness ==
    /\ last.op = "by_hostnames"
    /\ last.complement
    /\ Len(related_hostnames(last.origin)) = 2
    /\ \E n \in last.arg : n \in Range(related_hostnames(last.origin))
    /\ Ids(last.before) # {}
    /\ Ids(objs[last.obj]) = {}
\* C1. Partition completeness: when match() of a rule of any variant finds a
\* match with stop_after_match false, the affected-entity ids of the matched
\* graph and those of the remainder are disjoint and together are the ids the
\* graph had before the call.
C1_PartitionCompleteness ==
    (last.op = "match" /\ match # None /\ ~rule[1].stop_after_match) =>
        /\ remainder # None
        /\ Ids(objs[match]) \cap Ids(objs[remainder]) = {}
        /\ Ids(objs[match]) \cup Ids(objs[remainder]) = Ids(last.before)

\* a split in which both parts hold affected entities
C1_Witness ==
    /\ last.op = "match"
    /\ match # None
    /\ remainder # None
    /\ ~rule[1].stop_after_match
    /\ Ids(objs[match]) # {}
    /\ Ids(objs[remainder]) # {}

\* the rule's minimum_score lets the graph G through
ThresholdPassed(r, G) ==
    r.minimum_score = None \/ r.minimum_score[1] <= G.risk_score

\* C7. Threshold boundary: for a rule whose operator matches an element of
\* the target view, match() produces a match when minimum_score is unset,
\* lower than or equal to risk_score, and returns (None, graph) with the
\* graph unchanged when minimum_score is greater than risk_score.
C7_ThresholdBoundary ==
    (last.op = "match" /\ last.before # None /\ Matches(rule[1], last.before) # {}) =>
        /\ ThresholdPassed(rule[1], last.before) => match = last.obj
        /\ ~ThresholdPassed(rule[1], last.before) =>
              /\ match = None
              /\ remainder = last.obj
              /\ objs[remainder] = last.before

\* a rule whose minimum_score is the graph's risk_score matched
C7_Witness ==
    /\ last.op = "match"
    /\ last.before # None
    /\ last.before.risk_score > 0
    /\ rule[1].minimum_score = Some(last.before.risk_score)
    /\ match # None

\* C8. No match leaves the graph untouched: when no element of the target
\* view satisfies the operator (the view may be empty), match() returns
\* (None, graph) and the graph is what it was before the call.
C8_NoMatchUntouched ==
    (last.op = "match" /\ last.before # None /\ Matches(rule[1], last.before) = {}) =>
        /\ match = None
        /\ remainder = last.obj
        /\ objs[remainder] = last.before

\* a rule above no threshold found nothing in a non-empty view of a graph
\* that has related hosts
C8_Witness ==
    /\ last.op = "match"
    /\ last.before # None
    /\ ThresholdPassed(rule[1], last.before)
    /\ target_attribute_values(rule[1].variant, last.before) # {}
    /\ Matches(rule[1], last.before) = {}
    /\ related_hostnames(last.before) # <<>>
    /\ match = None

StopAfterMatchWholeGraph ==
    /\ match = last.obj
    /\ remainder = None
    /\ objs[match] = last.before

\* C9 as stated. When stop_after_match is set and an element of the target
\* view matches, match() returns (graph, None) and the graph holds every
\* affected entity and related host it held before.
C9_StopAfterMatchAnyScore ==
    (/\ last.op = "match"
     /\ last.before # None
     /\ rule[1].stop_after_match
     /\ Matches(rule[1], last.before) # {}) => StopAfterMatchWholeGraph

\* C9 as amended. When stop_after_match is set, an element of the target view
\* matches and minimum_score is unset or not above risk_score, match() returns
\* (graph, None) and the graph holds every affected entity and related host
\* it held before.
C9_StopAfterMatchWholeGraph ==
    (/\ last.op = "match"
     /\ last.before # None
     /\ rule[1].stop_after_match
     /\ ThresholdPassed(rule[1], last.before)
     /\ Matches(rule[1], last.before) # {}) => StopAfterMatchWholeGraph

\* a stop_after_match rule matched one of two related hostnames
C9_Witness ==
    /\ last.op = "match"
    /\ last.before # None
    /\ rule[1].stop_after_match
    /\ rule[1].variant = "HostnameRule"
    /\ Len(related_hostnames(last.before)) = 2
    /\ Cardinality(Matches(rule[1], last.before)) = 1
    /\ match = last.obj
    /\ Len(related_hostnames(objs[match])) = 2

Absent(d, k) == k \notin DOMAIN d \/ d[k] = None

\* the constructor arguments that the rule configuration forbids
InvalidArguments(variant, d) ==
    \/ Absent(d, "value")
    \/ Absent(d, "operator")
    \/ d.operator[1] = ""
    \/ d.operator[1] \notin SUPPORTED_OPERATORS(variant)
    \/ Absent(d, "params")
    \/ d.params = <<>>
    \/ /\ ~Absent(d, "minimum_score")
       /\ d.minimum_score[1] < 0 \/ d.minimum_score[1] > 10

\* the arguments Rule.create passes on from a rule dict with a supported type
ArgumentsOf(d) ==
    [k \in ((DOMAIN d) \ {"type", "minimumScore", "stopAfterMatch"})
            \cup (IF "minimumScore" \in DOMAIN d THEN {"minimum_score"} ELSE {}) |->
        IF k = "minimum_score" THEN d.minimumScore ELSE d[k]]

\* C10. Rule construction validation: constructing a rule raises exactly when
\* value is None, operator is empty or unsupported by the variant, params is
\* empty, or minimum_score is present and outside [0,10]; when it raises there
\* is no rule object, and otherwise the object holds the arguments.
C10_RuleConstructionValidation ==
    /\ last.op = "init" =>
          /\ last.raised # "" <=> InvalidArguments(last.args.variant, last.args)
          /\ last.raised # "" => rule = None
          /\ last.raised = "" =>
                /\ rule # None
                /\ rule[1].value = last.args.value[1]
                /\ rule[1].operator = last.args.operator[1]
                /\ rule[1].minimum_score = last.args.minimum_score
                /\ rule[1].params = last.args.params
    /\ (last.op = "create" /\ "type" \in DOMAIN last.args /\ last.args.type \in RuleTypes) =>
          /\ last.raised # "" <=>
                InvalidArguments(supported_rule_types[last.args.type], ArgumentsOf(last.args))
    /\ last.op = "create" => (last.raised # "" <=> rule = None)

\* a rule with an empty value and minimum_score 10 was built
C10_Witness ==
    /\ last.op = "init"
    /\ last.args.value = Some(<<>>)
    /\ last.args.minimum_score = Some(10)
    /\ last.raised = ""
    /\ rule # None

\* ------------------------------------------------------------ main: claims
DefaultHandoffs == {k \in DOMAIN last.handoffs : last.handoffs[k].by = "default"}

\* C11. Configuration errors come first: every rule of config.rules is built
\* before the first call on the scanning provider, and a run whose rule list
\* holds an invalid rule anywhere (unknown type, unsupported operator, empty
\* params, minimum_score out of range) aborts with no call made on the
\* provider and none on the ticket sink.
C11_ConfigurationErrorsFirst ==
    /\ ((\E k \in DOMAIN config.rules : config.rules[k] \in InvalidRuleDicts) /\ pc # "main")
          => (pc = "aborted" /\ calls = NoCalls)
    /\ calls.get_open_security_problems > 0 => Len(rules) = Len(config.rules)

\* the run aborted on an invalid rule that comes last, after a valid one
C11_Witness ==
    /\ pc = "aborted"
    /\ last.op = "build"
    /\ last.raised = "ValueError"
    /\ Len(config.rules) = 2
    /\ config.rules[1] \in ValidRuleDicts
    /\ config.rules[2] \in InvalidRuleDicts

\* C12 as stated. No partial success: a run either processes every record of
\* the batch, or aborts before any issue was created or comment added; no
\* fatal error is raised after the ticket sink was changed.
C12_NoPartialSuccess ==
    /\ pc = "aborted" => calls.mutations = 0
    /\ pc = "done" => last.processed = last.fetched

\* C13. Default action: with ignore_rest false, once the rules have all been
\* evaluated for a record the working graph is handed to write_to_jira exactly
\* once, with empty params and id 0, if and only if it is not absent and has
\* an affected entity; that handoff is the last of the record, and there is
\* none before the rules are through.
C13_DefaultAction ==
    /\ Cardinality(DefaultHandoffs) <= 1
    /\ (pc = "chain" /\ last.op # "default") => DefaultHandoffs = {}
    /\ (last.op = "default" /\ ~config.ignore_rest) =>
          /\ DefaultHandoffs # {} <=> (sd # None /\ DOMAIN objs[sd].affected_entities # {})
          /\ rule_iter = <<>>
          /\ \A k \in DefaultHandoffs :
                /\ k = Len(last.handoffs)
                /\ last.handoffs[k].params = <<>>
                /\ last.handoffs[k].id = <<"0">>

\* the default action followed a handoff made for a rule
C13_Witness ==
    /\ last.op = "default"
    /\ ~config.ignore_rest
    /\ Len(last.handoffs) = 2
    /\ last.handoffs[1].by = "rule"
    /\ last.handoffs[2].by = "default"
    /\ last.w.called

\* C14. Ignore-remainder: with ignore_rest set the step after the last rule
\* makes no call on the ticket sink (no search, no create, no comment),
\* whatever is left; a handoff for a rule is made exactly when the rule
\* produced a match, with or without the switch.
C14_IgnoreRemainder ==
    [][/\ (pc = "chain" /\ rule_iter = <<>> /\ config.ignore_rest) =>
              (calls' = calls /\ last'.handoffs = last.handoffs /\ pc' = "record")
       /\ (last'.op = "rule" /\ pc' # "aborted") => (last'.w.called <=> match' # None)]_vars

\* a remainder with affected entities was dropped after a rule's handoff
C14_Witness ==
    /\ last.op = "default"
    /\ config.ignore_rest
    /\ sd # None
    /\ DOMAIN objs[sd].affected_entities # {}
    /\ Len(last.handoffs) = 1
    /\ ~last.w.called

\* C15. stop_after_match ends the chain for the record: once a rule with
\* stop_after_match has produced a match the working graph is absent, every
\* later match() returns (absent, absent), and no later step (rule or default
\* action) makes a handoff or a call on the ticket sink for that record.
C15_StopEndsChain ==
    [][(last.stopped /\ pc = "chain") =>
          /\ sd = None
          /\ calls' = calls
          /\ last'.handoffs = last.handoffs
          /\ rule_iter # <<>> => (match' = None /\ remainder' = None)]_vars

\* a rule that would have matched came after the rule that stopped the chain
C15_Witness ==
    /\ last.stopped
    /\ last.op = "default"
    /\ Len(rules) = 2
    /\ rules[1].stop_after_match
    /\ rules[2].variant = "HostnameRule"
    /\ Len(last.handoffs) = 1
    /\ match = None

\* C20. Create-or-comment: in one handoff to write_to_jira, when the search
\* returns at least one issue no issue is created, and a comment is added
\* only when exactly one was returned and add_comments is true; when it
\* returns none exactly one create_issue call is made and no comment.
C20_CreateOrComment ==
    last.w.called =>
        /\ last.w.hits >= 1 =>
              /\ calls.create_issue = last.w.before.create_issue
              /\ calls.add_comment <= last.w.before.add_comment + 1
              /\ calls.add_comment > last.w.before.add_comment =>
                    (last.w.hits = 1 /\ config.add_comments)
        /\ last.w.hits = 0 =>
              /\ calls.create_issue = last.w.before.create_issue + 1
              /\ calls.add_comment = last.w.before.add_comment

\* a comment was added to the one issue found
C20_Witness ==
    /\ last.w.called
    /\ last.w.hits = 1
    /\ config.add_comments
    /\ calls.add_comment = last.w.before.add_comment + 1
    /\ calls.mutations > last.w.before.mutations

\* ----------------------------------------------- SecurityData.create: claims
\* a key the call lacks, or an id of the affectedEntities list or of a host
\* whose details the lookup table lacks
RequiredDataMissing(call) ==
    \/ call.absent # {}
    \/ ~(call.raw.affectedEntities \subseteq call.affected_details)
    \/ \E k \in DOMAIN call.raw.hosts : call.raw.hosts[k].id \notin call.host_details

\* C16 as stated. SecurityData.create raises and returns no graph when a
\* required field of the raw record is absent or when an affected-entity id or
\* a related-host id of the record is not in its lookup table; with lookup
\* tables that hold more entries than the record needs it builds the graph,
\* which holds the record's entities and no other.
C16_CreateFailFast ==
    last.op = "create" =>
        /\ RequiredDataMissing(last.call) => (last.raised # "" /\ sd = None)
        /\ ~RequiredDataMissing(last.call) =>
              /\ last.raised = ""
              /\ DOMAIN objs[sd].affected_entities = last.call.raw.affectedEntities
              /\ [k \in DOMAIN objs[sd].related_hosts |-> objs[sd].related_hosts[k].entity_id]
                    = [k \in DOMAIN last.call.raw.hosts |-> last.call.raw.hosts[k].id]

\* ------------------------------------------------------------ hex_id: claims
\* the attributes hex_id is said to depend on; minimum_score is the number,
\* whether an int or a float holds it
LogicalRule(r) ==
    <<r.variant, r.operator, r.value,
      IF r.minimum_score = None THEN None ELSE Some(r.minimum_score[1]),
      r.stop_after_match>>

\* C17 as stated. Two rules with the same variant, operator, value,
\* minimum_score and stop_after_match have the same hex_id, whatever their
\* params and whether or not one of them has been matched against a graph.
C17_HexIdDeterministic ==
    (last.op = "hex_id" /\ LogicalRule(rules[1]) = LogicalRule(rules[2]))
        => last.ids[1] = last.ids[2]

\* C18 as stated. Two rules that differ in variant, operator, value,
\* minimum_score or stop_after_match feed different byte sequences to the
\* digest of hex_id.
C18_HexIdInputUnique ==
    (last.op = "hex_id" /\ LogicalRule(rules[1]) # LogicalRule(rules[2]))
        => last.inputs[1] # last.inputs[2]

\* ------------------------------------------------------- catch-all: claims
\* a rule with an empty value and an operator that an empty pattern satisfies
CatchAll(r) ==
    /\ r.value = <<>>
    /\ r.operator \in {"contains", "containsIgnoreCase", "startswith", "startswithIgnoreCase"}

\* the affected entity i of G has an element in the view of the variant: its
\* name, one of its tags, a related host that refers to it
InView(variant, G, i) ==
    CASE variant = "AffectedEntityRule"    -> TRUE
      [] variant = "AffectedEntityTagRule" -> Range(tags(G.affected_entities[i])) # {}
      [] variant = "HostnameRule" ->
            \E k \in DOMAIN G.related_hosts :
                \E a \in G.related_hosts[k].affected_entities : entity_id(a) = i

RelatedHostIds(hs) == [k \in DOMAIN hs |-> hs[k].entity_id]

C21_ZeroRules ==
    (config.rules = <<>> /\ pc # "main") =>
        /\ config.ignore_rest => (pc = "aborted" /\ last.op = "build" /\ calls = NoCalls)
        /\ ~config.ignore_rest =>
              /\ last.op = "build" => pc = "fetch"
              /\ last.op = "record" => last.handoffs = <<>>
              /\ last.op = "default" =>
                    /\ Len(last.handoffs) = (IF Ids(objs[sd]) # {} THEN 1 ELSE 0)
                    /\ \A k \in DOMAIN last.handoffs :
                          /\ last.handoffs[k].by = "default"
                          /\ last.handoffs[k].params = <<>>
              /\ pc = "done" => last.processed = last.fetched

\* a run without rules went through two records and made a handoff
C21_Witness ==
    /\ config.rules = <<>>
    /\ ~config.ignore_rest
    /\ pc = "done"
    /\ last.processed = 2
    /\ calls.get_issues_with_summary_prefix >= 1

\* --------------------------------------------------- JiraConnection: claims
\* C22. Dry run never touches the ticketing provider: with dry_run set, after
\* any sequence of get_issues_with_summary_prefix, create_issue and
\* add_comment calls no request has been made on the provider, none of the
\* calls raised, the search returned the empty list and create_issue and
\* add_comment returned nothing.
C22_DryRunNoRequest ==
    config.dry_run =>
        /\ calls.requests = 0
        /\ last.raised = ""
        /\ last.op = "get_issues_with_summary_prefix" => last.returned = Some(0)
        /\ last.op \in {"create_issue", "add_comment"} => last.returned = None

\* the third call of a dry run was a create_issue that the server would have
\* answered with a new issue and an assignment
C22_Witness ==
    /\ config.dry_run
    /\ calls.made = 3
    /\ last.op = "create_issue"
    /\ last.ans[1].create = "ok"
    /\ last.ans[1].assign = "ok"
    /\ last.returned = None

\* ---------------------------------------------------------- split: claims
\* match() has split the graph: a match exists and stop_after_match is false
Split ==
    /\ last.op = "match"
    /\ last.before # None
    /\ match # None
    /\ ~rule[1].stop_after_match

Satisfies(r, x) == eval_function(r.operator, x, r.value)

\* the elements of the view of the variant that belong to the affected entity
\* a of G: its name, its tags, the names of the related hosts that refer to it
ViewOfEntity(variant, G, a) ==
    CASE variant = "AffectedEntityRule"    -> {entity_name(a)}
      [] variant = "AffectedEntityTagRule" -> Range(tags(a))
      [] variant = "HostnameRule" ->
            {G.related_hosts[k].entity_name :
                k \in {j \in DOMAIN G.related_hosts : a \in G.related_hosts[j].affected_entities}}

\* C23 as stated. After match() has split a graph (a match exists,
\* stop_after_match false), every element of the rule's target view read from
\* the matched graph satisfies the rule's operator against its value.
C23_MatchedViewAllMatching ==
    Split => \A x \in target_attribute_values(rule[1].variant, objs[match]) :
                Satisfies(rule[1], x)

\* C23 as amended. After match() has split a graph, the matched graph holds
\* at least one affected entity, and each of its affected entities has an
\* element in the target view that satisfies the operator (its name, one of
\* its tags, the name of a related host that refers to it); under the name
\* rule every element of the view of the matched graph satisfies the operator.
C23_MatchedEntitiesMatching ==
    Split =>
        /\ Ids(objs[match]) # {}
        /\ \A a \in Range(objs[match].affected_entities) :
              \E x \in ViewOfEntity(rule[1].variant, objs[match], a) : Satisfies(rule[1], x)
        /\ rule[1].variant = "AffectedEntityRule" =>
              \A x \in target_attribute_values(rule[1].variant, objs[match]) :
                  Satisfies(rule[1], x)

\* a tag rule kept an affected entity for one of its tags; the other tag of
\* the entity is in the view of the matched graph and does not satisfy the
\* operator, and the remainder holds an entity too
C23_Witness ==
    /\ Split
    /\ rule[1].variant = "AffectedEntityTagRule"
    /\ \E x \in affected_entity_tags(objs[match]) : ~Satisfies(rule[1], x)
    /\ Ids(objs[remainder]) # {}

\* C24. Remainder keeps only non-matching elements: after match() has split a
\* graph, no element of the rule's target view read from the remainder
\* satisfies the operator, for the three variants; match() of the same rule
\* on the remainder returns (None, remainder) and changes nothing.
C24_RemainderNothingMatching ==
    Split =>
        /\ remainder # None
        /\ \A x \in target_attribute_values(rule[1].variant, objs[remainder]) :
              ~Satisfies(rule[1], x)
        /\ LET again == Rule_match(rule[1], objs, remainder, 2)
           IN /\ again.match = None
              /\ again.remainder = remainder
              /\ again.objs = objs

\* a hostname rule has split a graph, and the remainder still has a related
\* hostname and an affected entity
C24_Witness ==
    /\ Split
    /\ rule[1].variant = "HostnameRule"
    /\ related_hostnames(objs[remainder]) # <<>>
    /\ Ids(objs[remainder]) # {}
    /\ Ids(objs[match]) # {}

\* every affected entity of G is referenced by exactly one related host
DisjointHosts(G) ==
    \A a \in Range(G.affected_entities) :
        Cardinality({k \in DOMAIN G.related_hosts : a \in G.related_hosts[k].affected_entities}) = 1

\* the related hosts of G that are in the related_hostnames view and whose
\* name does (matching) or does not satisfy the operator of r
HostsInView(r, G, matching) ==
    {k \in DOMAIN G.related_hosts :
        /\ G.related_hosts[k].affected_entities # {}
        /\ Satisfies(r, G.related_hosts[k].entity_name) = matching}

\* the object h (None: no graph) has the names of the hosts K of G, in their
\* order, as related hostnames, and the affected entities they refer to
HoldsHosts(h, G, K) ==
    /\ (IF h = None THEN <<>> ELSE related_hostnames(objs[h]))
          = [k \in DOMAIN SelectSeqBy(G.related_hosts, K) |->
                SelectSeqBy(G.related_hosts, K)[k].entity_name]
    /\ (IF h = None THEN {} ELSE Ids(objs[h]))
          = {entity_id(a) : a \in UNION {G.related_hosts[k].affected_entities : k \in K}}

HostSplit ==
    /\ HoldsHosts(match, last.before, HostsInView(rule[1], last.before, TRUE))
    /\ HoldsHosts(remainder, last.before, HostsInView(rule[1], last.before, FALSE))

\* C25 as stated. For a graph in which every affected entity is referenced by
\* exactly one related host, a hostname rule without stop_after_match yields
\* a matched graph whose related hostnames are the matching hosts and whose
\* affected entities are those they refer to, and a remainder whose related
\* hostnames are the other hosts, with their affected entities.
C25_HostSplitAnyScore ==
    (/\ last.op = "match"
     /\ last.before # None
     /\ rule[1].variant = "HostnameRule"
     /\ ~rule[1].stop_after_match
     /\ DisjointHosts(last.before)) => HostSplit

\* C25 as amended. The same, for a rule whose minimum_score is unset or not
\* above the risk_score of the graph.
C25_HostSplit ==
    (/\ last.op = "match"
     /\ last.before # None
     /\ rule[1].variant = "HostnameRule"
     /\ ~rule[1].stop_after_match
     /\ ThresholdPassed(rule[1], last.before)
     /\ DisjointHosts(last.before)) => HostSplit

\* a hostname rule has split a graph of two hosts with an affected entity each
C25_Witness ==
    /\ Split
    /\ rule[1].variant = "HostnameRule"
    /\ DisjointHosts(last.before)
    /\ Len(related_hostnames(last.before)) = 2
    /\ Len(related_hostnames(objs[match])) = 1
    /\ Len(related_hostnames(objs[remainder])) = 1
    /\ Ids(objs[match]) # {}
    /\ Ids(objs[remainder]) # {}

\* -------------------------------------------------------- removals: claims
\* the affected entity a is one that the removal of kind op with the set S
\* looks for: its name is in S, one of its tags is in S
Hit(op, S, a) ==
    CASE op = "by_name" -> entity_name(a) \in S
      [] op = "by_tags" -> \E t \in S : t \in Range(tags(a))

\* C26. Removal keeps exactly the intended set: after
\* remove_affected_entities_by_name(S, remove_matches) and after
\* remove_affected_entities_by_tags(S, remove_matches) the graph holds exactly
\* the affected entities it held before whose name is in S (that have a tag in
\* S) when remove_matches is false, and exactly the others when it is true;
\* no entity is added and the entities kept are the objects they were.
C26_RemovalKeepsIntended ==
    last.op \in {"by_name", "by_tags"} =>
        /\ Ids(objs[last.obj]) =
              {i \in Ids(last.before) :
                  Hit(last.op, last.arg, last.before.affected_entities[i]) = ~last.remove_matches}
        /\ Ids(objs[last.obj]) \subseteq Ids(last.before)
        /\ \A i \in Ids(objs[last.obj]) :
              /\ objs[last.obj].affected_entities[i] = last.before.affected_entities[i]
              /\ entity_id(objs[last.obj].affected_entities[i]) = i

\* a removal by tags with remove_matches false kept one affected entity and
\* deleted another
C26_Witness ==
    /\ last.op = "by_tags"
    /\ ~last.remove_matches
    /\ last.arg # {}
    /\ Ids(objs[last.obj]) # {}
    /\ Ids(objs[last.obj]) # Ids(last.before)

\* --------------------------------------------------------------- C27
\* the ids of the affected entities of the handoffs before the k-th
HandedBefore(hs, k) == UNION {hs[j].ids : j \in 1..(k - 1)}

\* the ids of the affected entities of all the handoffs
Handed(hs) == HandedBefore(hs, Len(hs) + 1)

\* C27: chain-level partition.  While one record is processed the affected
\* entity id sets of the graphs handed to write_to_jira are pairwise disjoint
\* and lie within the ids the record came with; once the default action has
\* been taken with ignore_rest false, their union is the record's original id
\* set: every affected entity is routed to exactly one handoff.
C27_ChainPartition ==
    pc \in {"chain", "record", "aborted", "done"} /\ last.op \in {"rule", "default"} =>
        /\ \A k \in DOMAIN last.handoffs :
              /\ last.handoffs[k].ids \cap HandedBefore(last.handoffs, k) = {}
              /\ last.handoffs[k].ids \subseteq last.record
        /\ (last.op = "default" /\ ~config.ignore_rest) => Handed(last.handoffs) = last.record

\* a record went through two rules that both matched and the default action
\* took the rest
C27_Witness ==
    /\ last.op = "default"
    /\ ~config.ignore_rest
    /\ Len(last.handoffs) = 3
    /\ last.handoffs[3].by = "default"
    /\ Handed(last.handoffs) = last.record

\* --------------------------------------------------------------- C28
\* the working graph is there and its dict of affected entities is empty
EmptyRemainder == pc = "chain" /\ sd # None /\ DOMAIN objs[sd].affected_entities = {}

\* C28: no empty handoff.  Every graph handed to write_to_jira, by a rule or
\* by the default action, has at least one affected entity; and a step taken
\* on a working graph without affected entities (a rule's turn or the default
\* action) hands nothing over and makes no call on JIRA.
C28_NoEmptyHandoff ==
    [][/\ \A k \in DOMAIN last'.handoffs : last'.handoffs[k].ids # {}
       /\ EmptyRemainder => (last'.handoffs = last.handoffs /\ calls' = calls)]_vars

\* a rule matched every affected entity of the record, the remainder it left
\* was empty, and the default action (ignore_rest false) handed nothing over
C28_Witness ==
    /\ last.op = "default"
    /\ ~config.ignore_rest
    /\ sd # None
    /\ DOMAIN objs[sd].affected_entities = {}
    /\ Len(last.handoffs) = 1
    /\ last.handoffs[1].by = "rule"
    /\ last.handoffs[1].ids = last.record
    /\ ~last.w.called

\* --------------------------------------------------------------- C29
\* every rule of the chain is a name rule without minimum_score
NameChain ==
    \A k \in DOMAIN rules :
        rules[k].variant = "AffectedEntityRule" /\ rules[k].minimum_score = None

\* the positions of the rules the name of the affected entity e satisfies
SatisfiedBy(e) == {k \in DOMAIN rules : Satisfies(rules[k], EntityName(e))}

First(S) == CHOOSE k \in S : \A j \in S : k <= j

\* the rules before the i-th that have stop_after_match and handed a graph over
StoppedBefore(i) ==
    {k \in 1..(i - 1) :
        /\ rules[k].stop_after_match
        /\ \E n \in DOMAIN last.handoffs : last.handoffs[n].rule = k}

\* e was handed over under the rule_id and the params of the i-th rule, and
\* under no other rule nor by the default action
HandedUnder(e, i) ==
    /\ \E n \in DOMAIN last.handoffs : e \in last.handoffs[n].ids
    /\ \A n \in DOMAIN last.handoffs :
          e \in last.handoffs[n].ids =>
              /\ last.handoffs[n].rule = i
              /\ last.handoffs[n].by = "rule"
              /\ last.handoffs[n].id = hex_id(rules[i])
              /\ last.handoffs[n].params = rules[i].params

\* C29 as stated: first matching rule wins.  In a chain of name rules without
\* minimum_score, once the record has gone through the chain, an affected
\* entity whose name satisfies two rules or more has been handed over under
\* the first of them and under no other rule nor by the default action.
C29_FirstSatisfiedRuleWins ==
    last.op = "default" /\ NameChain =>
        \A e \in last.record :
            Cardinality(SatisfiedBy(e)) >= 2 => HandedUnder(e, First(SatisfiedBy(e)))

\* C29, amended: the affected entity is handed over under the first rule its
\* name satisfies unless a rule before that one has stop_after_match and
\* matched: then it is handed over, with the whole working graph, under the
\* first such rule.  In both cases it is part of no other handoff.
C29_FirstTakerWins ==
    last.op = "default" /\ NameChain =>
        \A e \in last.record :
            SatisfiedBy(e) # {} =>
                LET i == First(SatisfiedBy(e))
                IN HandedUnder(e, IF StoppedBefore(i) = {} THEN i ELSE First(StoppedBefore(i)))

\* an affected entity whose name satisfies two rules went to the first of
\* them while the default action took another entity; and, in another run, an
\* earlier stop_after_match rule took an entity its value does not match
C29_Witness ==
    /\ last.op = "default"
    /\ NameChain
    /\ \E e \in last.record :
          /\ Cardinality(SatisfiedBy(e)) >= 2
          /\ \/ /\ StoppedBefore(First(SatisfiedBy(e))) = {}
                /\ HandedUnder(e, First(SatisfiedBy(e)))
                /\ Len(last.handoffs) >= 2
             \/ /\ StoppedBefore(First(SatisfiedBy(e))) # {}
                /\ HandedUnder(e, First(StoppedBefore(First(SatisfiedBy(e)))))

\* --------------------------------------------------------------- C30
\* C30: distinct handoffs get distinct prefixes.  While one record is
\* processed against a JIRA that held no issue of the record, no two handoffs
\* have the same summary prefix (the same id after the record's display_id),
\* and every handoff found no issue and so created its own.
C30_DistinctPrefixes ==
    \A n \in DOMAIN last.handoffs :
        /\ last.handoffs[n].hits = 0
        /\ \A m \in DOMAIN last.handoffs : m # n => last.handoffs[m].id # last.handoffs[n].id

====
